---------------------------- MODULE Spec2Model ----------------------------
(***************************************************************************)
(* A model of SlackAPIClient (src/slack_api_client.py): the constructor's  *)
(* token checks, the retry loop of _make_request, the error suggestion     *)
(* table and the operations built on the dispatcher.                       *)
(*                                                                         *)
(* One logical call is followed from its start to its result.  The remote  *)
(* is nondeterministic: every transmission ends in one of the outcomes of  *)
(* Outcomes.  The suspension points of the coroutine (the transmission and *)
(* the asyncio.sleep between attempts) are separate states of pc.          *)
(*                                                                         *)
(* Spec follows the calls of send_message, search_messages and direct      *)
(* callers of _make_request; SpecConstruct starts before __init__;         *)
(* SpecWalk follows get_channels and get_users page by page; SpecUpload    *)
(* follows smart_upload through verification, the sensitivity check, the   *)
(* choice of a strategy and the requests of the strategy; SpecCancel is    *)
(* Spec with a cancellation of the call's task possible at every await;    *)
(* SpecServer follows concurrent tool calls of src/slack_mcp_server.py     *)
(* through the lazy initialisation of the shared client; SpecSession is    *)
(* Spec with calls of close() in between; SpecTimer follows the timers of  *)
(* src/pomodoro_timer.py (start_timer, the countdown tasks, cancel_timer,  *)
(* the queries and the clean-up) and SpecStart the start_timer calls and   *)
(* the countdowns alone.                                                   *)
(***************************************************************************)
EXTENDS Integers, Sequences, FiniteSets, TLC

(***************************************************************************)
(* Bounds of the model.                                                    *)
(***************************************************************************)
\* the largest MAX_RETRIES the model configures (the code's default is 3)
MaxRetriesBound == 3

\* the remote's channel list has at most this many pages: the answer to the
\* MaxPages-th request of a walk carries no continuation cursor
MaxPages == 3

\* the values of RATE_LIMIT_DELAY and EXPONENTIAL_BACKOFF_BASE explored
RateLimitDelays == {1, 2}
BackoffBases == {2, 3}

\* the values of MAX_RETRIES of the clients followed from their construction
\* and of the clients whose listings are followed
SampleRetries == {0, 2}

VARIABLES
    max_retries,              \* self.max_retries
    rate_limit_delay,         \* self.rate_limit_delay
    exponential_backoff_base, \* self.exponential_backoff_base
    ctor,                     \* what the constructor was given: arguments, environment
    bot_token,                \* self.bot_token
    user_token,               \* self.user_token
    sdk,                      \* SDK_AVAILABLE: slack_sdk can be imported
    session,                  \* self._session: "none", "open", "closed"
    auth,                     \* the token in the Authorization header of the call
    op,                       \* the operation in progress
    pc,                       \* position of the call
    attempt,                  \* the loop variable of the retry loop
    transmissions,            \* HTTP transmissions made by the call
    outcomes,                 \* outcome of each transmission, in order
    waits,                    \* delay of each asyncio.sleep, in order
    raw,                      \* how _make_request ended
    args,                     \* the arguments of the listing operation
    all_channels,             \* get_channels: the items accumulated so far
    cursor,                   \* get_channels: the local variable cursor
    calls,                    \* dispatcher calls the operation has made
    requests,                 \* the 'cursor' parameter of each of these calls
    pages,                    \* the bodies these calls returned, in order
    listing,                  \* the list the operation returned
    file,                     \* smart_upload: the file and the arguments given
    created,                  \* smart_upload created the file
    file_size,                \* smart_upload: file_info['size']
    strategy,                 \* smart_upload: the strategy selected
    steps,                    \* the requests the upload has begun, in order
    step_auth,                \* the token of each of these requests
    step_results,             \* how each request of the upload that is over ended
    sent_bytes,               \* bytes of file content handed to requests
    upload_result,            \* smart_upload: what the strategy returned or raised
    result,                   \* what smart_upload gave its caller
    slack_client,             \* the server's global slack_client: 0 (None) or the number of the object
    pomodoro_manager,         \* the server's global pomodoro_manager is set
    clients_created,          \* SlackAPIClient objects the server has constructed
    sessions_created,         \* aiohttp sessions the server's client has created
    initialize_lock,          \* _initialize_lock: 0 (free) or the tool call holding it
    task_kind,                \* each tool call: a tool of the Slack client or of the timers
    task_pc,                  \* position of each tool call
    task_client,              \* the client object each tool call operates on (0: none yet)
    close_pc,                 \* position of a call of close(): "idle", "closing"
    now,                      \* datetime.now(), in minutes
    active_timers,            \* PomodoroTimerManager.active_timers: timer_id -> ActiveTimer
    timer_task,               \* the task of _timer_countdown of each timer
    start_pc,                 \* position of each start_timer call
    start_args,               \* what each start_timer call was given and computed
    cancel_pc,                \* position of each cancel_timer call
    cancel_target,            \* the timer_id each cancel_timer call was given
    send_calls,               \* send_message calls made for each timer, by kind
    posted,                   \* messages of each timer that reached the channel, by kind
    report,                   \* what the last query of the timers returned
    reply                     \* what the exposed operation gave its caller

cfgVars == <<max_retries, rate_limit_delay, exponential_backoff_base, ctor,
             bot_token, user_token, sdk>>
callVars == <<op, pc, attempt, transmissions, outcomes, waits, raw, reply>>
walkVars == <<args, all_channels, cursor, calls, requests, pages, listing>>
upVars == <<file, created, file_size, strategy, steps, step_auth, step_results,
           sent_bytes,
           upload_result, result>>
tmrVars == <<now, active_timers, timer_task, start_pc, start_args, cancel_pc,
            cancel_target, send_calls, posted, report>>
srvVars == <<slack_client, pomodoro_manager, clients_created, sessions_created,
            initialize_lock, task_kind, task_pc, task_client, close_pc, tmrVars>>
vars == <<max_retries, rate_limit_delay, exponential_backoff_base, ctor,
          bot_token, user_token, sdk, session, auth, op, pc, attempt,
          transmissions, outcomes, waits, raw, reply, args, all_channels, cursor,
          calls, requests, pages, listing, file, created, file_size, strategy,
          steps, step_auth, step_results, sent_bytes, upload_result, result,
          slack_client, pomodoro_manager, clients_created, sessions_created,
          initialize_lock, task_kind, task_pc, task_client, close_pc, now,
          active_timers, timer_task, start_pc, start_args, cancel_pc,
          cancel_target, send_calls, posted, report>>

(***************************************************************************)
(* Tokens and the constructor.                                             *)
(***************************************************************************)
\* a token is None or a string; a string is the sequence of its characters
None == [set |-> FALSE, text |-> <<>>]
Str(text) == [set |-> TRUE, text |-> text]

\* the truth value Python gives an Optional[str]
Truthy(t) == t.set /\ t.text # <<>>

\* a or b
OrElse(a, b) == IF Truthy(a) THEN a ELSE b

\* text.startswith(prefix)
StartsWith(text, prefix) ==
    /\ Len(text) >= Len(prefix)
    /\ SubSeq(text, 1, Len(prefix)) = prefix

BotPrefix == <<"x", "o", "x", "b", "-">>
UserPrefix == <<"x", "o", "x", "p", "-">>

\* the token values the model hands the constructor: None, the empty string,
\* a string of the bot format and a string of the user format
TokenValues ==
    {None, Str(<<>>), Str(BotPrefix \o <<"1">>), Str(UserPrefix \o <<"1">>)}

\* what __init__ is given for one client
CtorInputs ==
    [bot_arg : TokenValues, user_arg : TokenValues,
     bot_env : TokenValues, user_env : TokenValues]

\* the inputs of the clients whose calls are followed: a bot token passed as
\* argument, and no user token, a user token or a malformed one
CallerInputs ==
    [bot_arg : {Str(BotPrefix \o <<"1">>)}, user_arg : TokenValues \ {Str(<<>>)},
     bot_env : {None}, user_env : {None}]

\* a malformed user token is kept
ValidateUserTokenKeeps(user) == user

\* the user token is optional: a malformed one is dropped
ValidateUserToken(user) ==
    IF Truthy(user) /\ ~StartsWith(user.text, UserPrefix) THEN None ELSE user

\* __init__ up to the token checks: ValueError when the bot token is missing
\* or malformed, else the two tokens the client holds
Construct(c) ==
    LET bot == OrElse(c.bot_arg, c.bot_env)
        user == OrElse(c.user_arg, c.user_env)
    IN  IF ~Truthy(bot)
        THEN [ok |-> FALSE, bot_token |-> None, user_token |-> None]
        ELSE IF ~StartsWith(bot.text, BotPrefix)
        THEN [ok |-> FALSE, bot_token |-> None, user_token |-> None]
        ELSE [ok |-> TRUE, bot_token |-> bot, user_token |-> ValidateUserToken(user)]

(***************************************************************************)
(* Responses of the remote.                                                *)
(***************************************************************************)
\* the keys of the suggestions table of _get_error_suggestion
KnownCodes ==
    {"missing_scope", "not_in_channel", "channel_not_found", "user_not_found",
     "invalid_auth", "account_inactive", "token_revoked", "ratelimited",
     "access_denied", "cannot_dm_bot", "user_disabled", "not_allowed_token_type",
     "invalid_arguments", "file_too_large", "upload_failed"}

\* the 'error' field of a not-ok body: a known code, a code the table does not
\* list, or no field at all
NoCode == "<no error field>"
BodyCodes == KnownCodes \cup {"internal_error", NoCode}

\* the Retry-After header: absent, or decimal digits (0, 7, 12 seconds)
NoHeader == [present |-> FALSE, digits |-> <<>>]
RetryAfterHeaders ==
    {NoHeader} \cup {[present |-> TRUE, digits |-> d] : d \in {<<0>>, <<7>>, <<1, 2>>}}

\* the 'needed' field of a missing_scope body
NoNeeded == "<no needed field>"

Payloads == {"p1", "p2"}

Outcome(kind, code, header, needed, payload) ==
    [kind |-> kind, code |-> code, header |-> header, needed |-> needed,
     payload |-> payload]

\* what one transmission can end in: an ok body, a not-ok body, a body that is
\* not JSON, a connection error, a timeout of the whole request
Outcomes ==
    {Outcome("ok", NoCode, NoHeader, NoNeeded, p) : p \in Payloads}
    \cup {Outcome("not_ok", c, NoHeader, NoNeeded, "none") : c \in BodyCodes \ {"ratelimited"}}
    \cup {Outcome("not_ok", "missing_scope", NoHeader, "chat:write", "none")}
    \cup {Outcome("not_ok", "ratelimited", h, NoNeeded, "none") : h \in RetryAfterHeaders}
    \cup {Outcome(k, NoCode, NoHeader, NoNeeded, "none") : k \in {"bad_json", "conn_error", "timeout"}}

(***************************************************************************)
(* Pure helpers of the dispatcher.                                         *)
(***************************************************************************)
RECURSIVE Pow(_, _)
\* base ** exp of Python integers (unbounded)
Pow(base, exp) == IF exp = 0 THEN 1 ELSE base * Pow(base, exp - 1)

RECURSIVE ParseInt(_)
\* int(text) of a string of decimal digits
ParseInt(digits) ==
    IF digits = <<>> THEN 0
    ELSE 10 * ParseInt(SubSeq(digits, 1, Len(digits) - 1)) + digits[Len(digits)]

\* the texts of the suggestions table, one per known code (missing_scope apart)
SuggestionText ==
    [c \in KnownCodes \ {"missing_scope"} |->
        CASE c = "not_in_channel" -> "invite the bot to the channel"
          [] c = "channel_not_found" -> "check the channel id or name"
          [] c = "user_not_found" -> "check the user id"
          [] c = "invalid_auth" -> "create a new token"
          [] c = "account_inactive" -> "the workspace is inactive"
          [] c = "token_revoked" -> "the token was revoked"
          [] c = "ratelimited" -> "request limit exceeded, try again later"
          [] c = "access_denied" -> "check scopes and channel permissions"
          [] c = "cannot_dm_bot" -> "use a regular user id"
          [] c = "user_disabled" -> "the user account is disabled"
          [] c = "not_allowed_token_type" -> "search needs a user token"
          [] c = "invalid_arguments" -> "check the API parameters"
          [] c = "file_too_large" -> "check the file size limit"
          [] c = "upload_failed" -> "check the network and file permissions"]

\* a code the table does not list gets no text at all
GenericSuggestionEmpty(error_code) == <<>>

GenericSuggestion(error_code) == <<"no specific suggestion for", error_code>>

\* a wrongly keyed table: every code gets the generic text
GetErrorSuggestionNoTable(error_code, needed) == GenericSuggestion(error_code)

\* _get_error_suggestion: suggestions.get(error_code, generic); a text is a
\* sequence of its parts
GetErrorSuggestion(error_code, needed) ==
    IF error_code = "missing_scope"
    THEN <<"add the OAuth scope", IF needed = NoNeeded THEN "check needed" ELSE needed>>
    ELSE IF error_code \in KnownCodes
    THEN <<SuggestionText[error_code]>>
    ELSE GenericSuggestion(error_code)

\* response_data.get('error', 'unknown_error')
ErrorCodeOf(o) == IF o.code = NoCode THEN "unknown_error" ELSE o.code

\* the header is ignored and the policy default always used
RetryAfterDefaultOnly(header, default) == default

\* int(response.headers.get('Retry-After', self.rate_limit_delay))
RetryAfter(header, default) ==
    IF header.present THEN ParseInt(header.digits) ELSE default

\* further codes are taken for throttling
IsRateLimitedWide(error_code) == error_code \in {"ratelimited", "unknown_error"}

\* error_code == 'ratelimited'
IsRateLimited(error_code) == error_code = "ratelimited"

\* the last attempt waits and retries too
RateLimitRetriesOffByOne(a, n) == a < n

\* attempt < self.max_retries - 1
RateLimitRetries(a, n) == a < n - 1

\* suggestion += " max retries (n) exceeded"
ExhaustedNote(n) == <<"max retries exceeded", ToString(n)>>

\* attempt == self.max_retries - 1
NetworkLast(a, n) == a = n - 1

\* self.rate_limit_delay * (self.exponential_backoff_base ** attempt)
BackoffDelay(rld, base, a) == rld * Pow(base, a)

\* what the transport raises for a fault: a connection error is an
\* aiohttp.ClientError; the session's only timeout is ClientTimeout(total=...),
\* whose expiry is raised as asyncio.TimeoutError, which is no ClientError; the
\* cancellation of the task is raised at its await as asyncio.CancelledError
ExceptionOf(kind) ==
    CASE kind = "conn_error" -> "aiohttp.ClientError"
      [] kind = "cancelled" -> "asyncio.CancelledError"
      [] OTHER -> "asyncio.TimeoutError"

\* a handler that catches whatever is raised
CaughtWhateverRaised(exc) == TRUE

\* except aiohttp.ClientError
CaughtAsClientError(exc) == exc = "aiohttp.ClientError"

\* range(self.max_retries)
LoopContinues(a, n) == a < n

\* a retry after throttling does not use up an attempt
NextAttemptSeparateCounters(a, cause) == IF cause = "not_ok" THEN a ELSE a + 1

\* the for loop's next index, whatever made the loop go round
NextAttempt(a, cause) == a + 1

(***************************************************************************)
(* How _make_request ends.                                                 *)
(***************************************************************************)
NoRaw == [how |-> "none", exc |-> "none", code |-> "none", suggestion |-> <<>>,
          payload |-> "none"]

Returns(payload) ==
    [how |-> "return", exc |-> "none", code |-> "none", suggestion |-> <<>>,
     payload |-> payload]

RaisesSlackAPIError(error_code, suggestion) ==
    [how |-> "raise", exc |-> "SlackAPIError", code |-> error_code,
     suggestion |-> suggestion, payload |-> "none"]

RaisesOther(exc) ==
    [how |-> "raise", exc |-> exc, code |-> "none", suggestion |-> <<>>,
     payload |-> "none"]

Finish(r) == [act |-> "finish", delay |-> 0, raw |-> r]
Sleep(d) == [act |-> "sleep", delay |-> d, raw |-> NoRaw]

\* a body that is not JSON is retried like a network error
OnBadJsonRetried(a, n, rld, base) ==
    IF NetworkLast(a, n)
    THEN Finish(RaisesSlackAPIError("json_parse_error", <<"Slack returned invalid JSON">>))
    ELSE Sleep(BackoffDelay(rld, base, a))

\* json.loads fails: SlackAPIError("json_parse_error") is raised inside the
\* try and re-raised by "except SlackAPIError: raise"
OnBadJson(a, n, rld, base) ==
    Finish(RaisesSlackAPIError("json_parse_error", <<"Slack returned invalid JSON">>))

\* the function returns without handing the parsed body back
OnOkDropsPayload(o) == Finish(Returns("none"))

\* the success case: return response_data
OnOk(o) == Finish(Returns(o.payload))

\* a body whose 'ok' is false or missing
OnNotOk(o, a, n, rld) ==
    LET error_code == ErrorCodeOf(o)
        suggestion == GetErrorSuggestion(error_code, o.needed)
    IN  IF IsRateLimited(error_code)
        THEN LET retry_after == RetryAfter(o.header, rld)
             IN  IF RateLimitRetries(a, n)
                 THEN Sleep(retry_after)
                 ELSE Finish(RaisesSlackAPIError(error_code, suggestion \o ExhaustedNote(n)))
        ELSE Finish(RaisesSlackAPIError(error_code, suggestion))

\* the transport raised instead of answering
OnFault(o, a, n, rld, base) ==
    LET exc == ExceptionOf(o.kind)
    IN  IF CaughtAsClientError(exc)
        THEN IF NetworkLast(a, n)
             THEN Finish(RaisesSlackAPIError("network_error", <<"check the network or the Slack API status">>))
             ELSE Sleep(BackoffDelay(rld, base, a))
        ELSE Finish(RaisesOther(exc))

\* the body of one iteration of the retry loop, from the end of the
\* transmission to the next suspension point or the end of the call
Step(o, a, n, rld, base) ==
    CASE o.kind = "ok" -> OnOk(o)
      [] o.kind = "not_ok" -> OnNotOk(o, a, n, rld)
      [] o.kind = "bad_json" -> OnBadJson(a, n, rld, base)
      [] OTHER -> OnFault(o, a, n, rld, base)

\* the statement after the loop
AfterLoop(n) == RaisesSlackAPIError("max_retries_exceeded", ExhaustedNote(n))

\* the check of the user token is missing
HeadersRaiseNever(use_user_token, token) == FALSE

\* _get_headers: ValueError when the user token is asked for and not held
HeadersRaise(use_user_token, token) == use_user_token /\ ~Truthy(token)

\* _get_headers: the token of the Authorization header
Bearer(use_user_token, bot, user) == IF use_user_token THEN user ELSE bot

(***************************************************************************)
(* The exposed operations.                                                 *)
(***************************************************************************)
Ops == {"send_message", "make_request", "make_request_user", "search_messages"}

NoReply == [how |-> "none", success |-> FALSE, exc |-> "none", error |-> <<>>,
            suggestion |-> <<>>, payload |-> "none"]

\* send_message: the envelope built from the dispatcher's result; only
\* SlackAPIError is caught
SendMessageReply(r) ==
    IF r.how = "return"
    THEN [how |-> "return", success |-> TRUE, exc |-> "none", error |-> <<>>,
          suggestion |-> <<>>, payload |-> r.payload]
    ELSE IF r.exc = "SlackAPIError"
    THEN [how |-> "return", success |-> FALSE, exc |-> "none",
          error |-> <<"message send failed", r.code>>,
          suggestion |-> r.suggestion, payload |-> "none"]
    ELSE [how |-> "raise", success |-> FALSE, exc |-> r.exc, error |-> <<>>,
          suggestion |-> <<>>, payload |-> "none"]

\* a direct caller of _make_request gets its result as it is
DirectReply(r) ==
    [how |-> r.how, success |-> r.how = "return", exc |-> r.exc,
     error |-> IF r.exc = "SlackAPIError" THEN <<r.code>> ELSE <<>>,
     suggestion |-> r.suggestion, payload |-> r.payload]

\* search_messages without a user token: the envelope returned before any
\* request is built
SearchNeedsToken ==
    [how |-> "return", success |-> FALSE, exc |-> "none",
     error |-> <<"search needs SLACK_USER_TOKEN">>,
     suggestion |-> <<"set SLACK_USER_TOKEN and add the search:read scope">>,
     payload |-> "none"]

\* search_messages: the envelope built from the dispatcher's result; only
\* SlackAPIError is caught
SearchMessagesReply(r) ==
    IF r.how = "return"
    THEN [how |-> "return", success |-> TRUE, exc |-> "none", error |-> <<>>,
          suggestion |-> <<>>, payload |-> r.payload]
    ELSE IF r.exc = "SlackAPIError"
    THEN [how |-> "return", success |-> FALSE, exc |-> "none",
          error |-> <<"message search failed", r.code>>,
          suggestion |-> r.suggestion, payload |-> "none"]
    ELSE [how |-> "raise", success |-> FALSE, exc |-> r.exc, error |-> <<>>,
          suggestion |-> <<>>, payload |-> "none"]

ReplyOf(o, r) ==
    CASE o = "send_message" -> SendMessageReply(r)
      [] o = "search_messages" -> SearchMessagesReply(r)
      [] OTHER -> DirectReply(r)

(***************************************************************************)
(* Listings: get_channels and get_users.                                   *)
(***************************************************************************)
\* an item without a 'name' field
NoName == "<no name field>"

\* the channel objects the remote lists
Ch1 == [id |-> "C1", name |-> "general"]
Ch2 == [id |-> "C2", name |-> NoName]
Ch3 == [id |-> "C3", name |-> "random"]

\* continuation cursors
Cur1 == Str(<<"c", "1">>)
Cur2 == Str(<<"c", "2">>)

\* a conversations.list body: its 'channels' ('<<>>' also for a body without
\* the key), its 'response_metadata' ("absent", "null" or "object") and the
\* 'next_cursor' of that object (None when the key is missing)
ChannelPage(id, channels, response_metadata, next_cursor) ==
    [id |-> id, channels |-> channels, response_metadata |-> response_metadata,
     next_cursor |-> next_cursor]

ChannelPages ==
    {ChannelPage("more_1", <<Ch1>>, "object", Cur1),
     ChannelPage("more_2", <<Ch2, Ch3>>, "object", Cur2),
     ChannelPage("last_no_metadata", <<Ch3>>, "absent", None),
     ChannelPage("last_no_cursor", <<Ch1, Ch2>>, "object", None),
     ChannelPage("last_empty_cursor", <<>>, "object", Str(<<>>)),
     ChannelPage("last_null_metadata", <<Ch2>>, "null", None)}

ChannelPageOf(id) == CHOOSE p \in ChannelPages : p.id = id

\* response.get('response_metadata', {}).get('next_cursor'); a null
\* response_metadata has no get: AttributeError
NextCursorRaises(page) == page.response_metadata = "null"
NextCursorOf(page) ==
    IF page.response_metadata = "object" THEN page.next_cursor ELSE None

\* the walk goes on while the cursor is not None
StopsWalkOnNoneOnly(c) == c = None

\* if not cursor: break
StopsWalk(c) == ~Truthy(c)

\* the new batch replaces the accumulated items
ExtendReplaces(acc, batch) == batch

\* all_channels.extend(channels_batch)
Extend(acc, batch) == acc \o batch

\* the parameters keep the cursor they had
NextParamsStale(param, c) == param

\* if cursor: params['cursor'] = cursor -- params is one dict for the whole
\* walk, param is the value its 'cursor' key has (None: no such key)
NextParams(param, c) == IF Truthy(c) THEN c ELSE param

\* one entry of the returned list
FormatChannel(ch) ==
    [id |-> ch.id,
     name |-> IF ch.name = NoName THEN <<"channel_", ch.id>> ELSE <<ch.name>>]

FormatChannels(chs) == [i \in 1..Len(chs) |-> FormatChannel(chs[i])]

\* a listing operation returned its list
ListingReply ==
    [how |-> "return", success |-> TRUE, exc |-> "none", error |-> <<>>,
     suggestion |-> <<>>, payload |-> "none"]

\* a failed walk hands back what it had accumulated
WalkFailureReturnsPartial(r, acc) ==
    [reply |-> ListingReply, listing |-> FormatChannels(acc)]

\* except SlackAPIError: raise -- any other exception propagates as well;
\* nothing is returned
WalkFailure(r, acc) == [reply |-> DirectReply(r), listing |-> <<>>]

\* the tool get_slack_channels of the server around get_channels
GetSlackChannels(r, l) ==
    IF r.how = "return"
    THEN [success |-> TRUE, has_channels |-> TRUE, channels |-> l,
          total_count |-> Len(l)]
    ELSE [success |-> FALSE, has_channels |-> FALSE, channels |-> <<>>,
          total_count |-> 0]

\* the arguments of get_users: include_bots, limit, user_types (<<>>: None)
NoArgs == [include_bots |-> FALSE, limit |-> 0, user_types |-> <<>>]
UserArgs ==
    [include_bots : BOOLEAN, limit : {0, 1, 2}, user_types : {<<>>, <<"admin">>}]

DefaultUserLimit == 50
MaxUserLimit == 200

\* limit = min(limit or default_limit, 200)
EffectiveLimit(limit) ==
    LET l == IF limit = 0 THEN DefaultUserLimit ELSE limit
    IN  IF l < MaxUserLimit THEN l ELSE MaxUserLimit

\* the user objects the remote lists
Member(id, deleted, is_bot, is_admin) ==
    [id |-> id, deleted |-> deleted, is_bot |-> is_bot, is_admin |-> is_admin]

\* a users.list body: its 'members' and the 'next_cursor' of its
\* 'response_metadata'
UserPage(id, members, next_cursor) ==
    [id |-> id, members |-> members, next_cursor |-> next_cursor]

UserPages ==
    {UserPage("users_more",
              <<Member("U0", TRUE, FALSE, FALSE), Member("U1", FALSE, FALSE, FALSE),
                Member("B1", FALSE, TRUE, FALSE)>>, Cur1),
     UserPage("users_last",
              <<Member("USLACKBOT", FALSE, FALSE, FALSE),
                Member("U2", FALSE, FALSE, TRUE),
                Member("U3", FALSE, FALSE, FALSE)>>, None)}

UserPageOf(id) == CHOOSE p \in UserPages : p.id = id

\* _categorize_user_type, for the properties the model's users have
CategorizeUserType(u) ==
    IF u.is_bot THEN "bot" ELSE IF u.is_admin THEN "admin" ELSE "member"

\* the members get_users leaves out
Skipped(u, a) ==
    \/ u.deleted
    \/ u.id = "USLACKBOT"
    \/ ~a.include_bots /\ u.is_bot
    \/ /\ a.user_types # <<>>
       /\ \A i \in 1..Len(a.user_types) : a.user_types[i] # CategorizeUserType(u)

FormatUser(u) ==
    [id |-> u.id, is_bot |-> u.is_bot, user_type |-> CategorizeUserType(u)]

RECURSIVE FormatUsers(_, _, _)
\* the loop over users_raw: formatted_users grows until the limit is reached
FormatUsers(members, formatted_users, a) ==
    IF members = <<>>
    THEN formatted_users
    ELSE IF Skipped(Head(members), a)
    THEN FormatUsers(Tail(members), formatted_users, a)
    ELSE LET grown == Append(formatted_users, FormatUser(Head(members)))
         IN  IF Len(grown) >= EffectiveLimit(a.limit)
             THEN grown
             ELSE FormatUsers(Tail(members), grown, a)

\* the transmissions that do not end in an ok body
Failures == {o \in Outcomes : o.kind # "ok"}

(***************************************************************************)
(* Files: paths, the sensitivity check and the choice of a strategy.       *)
(***************************************************************************)
\* a string is the sequence of its characters; the letters str.lower() maps
UpperLetters ==
    <<"A", "B", "C", "D", "E", "F", "G", "H", "I", "J", "K", "L", "M",
      "N", "O", "P", "Q", "R", "S", "T", "U", "V", "W", "X", "Y", "Z">>
LowerLetters ==
    <<"a", "b", "c", "d", "e", "f", "g", "h", "i", "j", "k", "l", "m",
      "n", "o", "p", "q", "r", "s", "t", "u", "v", "w", "x", "y", "z">>

LowerChar(c) ==
    IF \E i \in DOMAIN UpperLetters : UpperLetters[i] = c
    THEN LowerLetters[CHOOSE i \in DOMAIN UpperLetters : UpperLetters[i] = c]
    ELSE c

\* text.lower()
Lower(text) == [i \in 1..Len(text) |-> LowerChar(text[i])]

\* text.endswith(suffix)
EndsWith(text, suffix) ==
    /\ Len(text) >= Len(suffix)
    /\ SubSeq(text, Len(text) - Len(suffix) + 1, Len(text)) = suffix

\* word in text
Contains(text, word) ==
    \E i \in 1..(Len(text) - Len(word) + 1) : SubSeq(text, i, i + Len(word) - 1) = word

\* a resolved path is the sequence of its parts below the root
\* Path.name
NameOf(path) == path[Len(path)]

\* name.rfind('.') counted from 1, 0 when there is no dot
LastDot(name) ==
    IF \E i \in 1..Len(name) : name[i] = "."
    THEN CHOOSE i \in 1..Len(name) :
             /\ name[i] = "."
             /\ \A j \in (i + 1)..Len(name) : name[j] # "."
    ELSE 0

\* Path.suffix: from the last dot of the name, unless the dot is its first or
\* its last character
SuffixOf(path) ==
    LET name == NameOf(path)
        i == LastDot(name)
    IN  IF 1 < i /\ i < Len(name) THEN SubSeq(name, i, Len(name)) ELSE <<>>

RECURSIVE PathString(_)
\* str(path)
PathString(path) ==
    IF path = <<>> THEN <<>> ELSE <<"/">> \o Head(path) \o PathString(Tail(path))

sensitive_extensions ==
    {<<".", "k", "e", "y">>, <<".", "p", "e", "m">>, <<".", "p", "1", "2">>,
     <<".", "j", "k", "s">>, <<".", "k", "e", "y", "s", "t", "o", "r", "e">>}

sensitive_names ==
    {<<"p", "a", "s", "s", "w", "d">>, <<"s", "h", "a", "d", "o", "w">>,
     <<"p", "r", "i", "v", "a", "t", "e">>,
     <<"s", "e", "c", "r", "e", "t", "s">>,
     <<"c", "r", "e", "d", "e", "n", "t", "i", "a", "l", "s">>,
     <<"c", "o", "n", "f", "i", "g">>,
     <<"s", "e", "t", "t", "i", "n", "g", "s">>, <<"t", "o", "k", "e", "n">>,
     <<"a", "p", "i", "_", "k", "e", "y">>,
     <<"p", "a", "s", "s", "w", "o", "r", "d">>}

system_paths ==
    {<<"/", "e", "t", "c">>, <<"/", "u", "s", "r">>, <<"/", "s", "y", "s">>,
     <<"/", "p", "r", "o", "c">>, <<"/", "v", "a", "r">>}

sensitive_dirs ==
    {<<".", "s", "s", "h">>, <<".", "a", "w", "s">>,
     <<".", "c", "o", "n", "f", "i", "g">>, <<".", "e", "n", "v">>,
     <<"c", "r", "e", "d", "e", "n", "t", "i", "a", "l", "s">>,
     <<"s", "e", "c", "r", "e", "t", "s">>}

sensitive_patterns ==
    {<<".", "b", "a", "k">>, <<".", "t", "m", "p">>, <<".", "s", "w", "p">>,
     <<"~">>, <<".", "D", "S", "_", "S", "t", "o", "r", "e">>}

\* only the extension is looked at
IsSensitiveFileByExtension(path) == Lower(SuffixOf(path)) \in sensitive_extensions

\* _is_sensitive_file
IsSensitiveFile(path) ==
    \/ Lower(SuffixOf(path)) \in sensitive_extensions
    \/ \E sensitive \in sensitive_names : Contains(Lower(NameOf(path)), sensitive)
    \/ \E sys_path \in system_paths : StartsWith(PathString(path), sys_path)
    \/ \E i \in 1..Len(path) : path[i] \in sensitive_dirs
    \/ \E pattern \in sensitive_patterns : EndsWith(NameOf(path), pattern)

\* the defaults of TEXT_MESSAGE_LIMIT, MEDIUM_FILE_LIMIT, STANDARD_FILE_LIMIT
\* and LARGE_FILE_LIMIT, in bytes
text_message == 51200
snippet == 1048576
standard == 104857600
large == 1073741824

text_extensions ==
    {<<".", "t", "x", "t">>, <<".", "m", "d">>, <<".", "j", "s", "o", "n">>,
     <<".", "c", "s", "v">>, <<".", "l", "o", "g">>, <<".", "i", "n", "i">>,
     <<".", "c", "f", "g">>, <<".", "y", "m", "l">>,
     <<".", "y", "a", "m", "l">>, <<".", "x", "m", "l">>, <<".", "p", "y">>,
     <<".", "j", "s">>, <<".", "h", "t", "m", "l">>, <<".", "c", "s", "s">>}

\* a small text file is a message whatever its extension
StrategyBySizeOnly(ext, size) ==
    IF size < text_message THEN "text_message"
    ELSE IF size < snippet THEN "code_snippet"
    ELSE IF size < large THEN "file_upload"
    ELSE "file_info_only"

\* a file of 1 GB or more is handed to the standard upload
StrategyUploadsAll(ext, size) ==
    IF ext \in text_extensions /\ size < text_message THEN "text_message"
    ELSE IF size < snippet THEN "code_snippet"
    ELSE "file_upload"

\* the if / elif chain of smart_upload; the value is the 'method' of the
\* strategy it calls
Strategy(ext, size) ==
    IF ext \in text_extensions /\ size < text_message THEN "text_message"
    ELSE IF size < snippet THEN "code_snippet"
    ELSE IF size < large THEN "file_upload"
    ELSE "file_info_only"

\* the paths handed to smart_upload
SamplePaths ==
    {<<<<"h", "o", "m", "e">>, <<"u">>, <<"r", "e", "p", "o", "r", "t", ".", "t", "x", "t">>>>,
     <<<<"h", "o", "m", "e">>, <<"u">>, <<"N", "o", "t", "e", "s", ".", "T", "X", "T">>>>,
     <<<<"h", "o", "m", "e">>, <<"u">>, <<"d", "a", "t", "a", ".", "c", "s", "v">>>>,
     <<<<"h", "o", "m", "e">>, <<"u">>, <<"a", "r", "c", "h", "i", "v", "e", ".", "z", "i", "p">>>>,
     <<<<"h", "o", "m", "e">>, <<"u">>, <<"v", "i", "d", "e", "o">>>>,
     <<<<"h", "o", "m", "e">>, <<"u">>, <<".", "s", "s", "h">>, <<"i", "d", "_", "r", "s", "a">>>>,
     <<<<"h", "o", "m", "e">>, <<"u">>, <<".", "s", "s", "h">>, <<"o", "l", "d">>, <<"i", "d", "_", "r", "s", "a">>>>,
     <<<<"h", "o", "m", "e">>, <<"u">>, <<"s", "e", "r", "v", "e", "r", ".", "P", "E", "M">>>>,
     <<<<"h", "o", "m", "e">>, <<"u">>, <<"M", "y", "_", "P", "a", "s", "s", "w", "o", "r", "d", "s", ".", "t", "x", "t">>>>,
     <<<<"e", "t", "c">>, <<"h", "o", "s", "t", "s">>>>,
     <<<<"h", "o", "m", "e">>, <<"u">>, <<"r", "e", "p", "o", "r", "t", ".", "t", "x", "t", ".", "b", "a", "k">>>>}

\* the sizes of the files, in bytes: 0, 10 KB, around 50 KB, 900 KB, around
\* 1 MB, 50 MB, around 100 MB, around 1 GB, and 2 GB less one byte
SampleSizes ==
    {0, 10240, 51199, 51200, 921600, 1048575, 1048576, 52428800, 104857600,
     104857601, 1073741823, 1073741824, 2147483647}

(***************************************************************************)
(* smart_upload: its arguments, its result and the four strategies.        *)
(***************************************************************************)
NoFile ==
    [path |-> <<>>, on_disk |-> "none", size |-> 0, arg |-> "none",
     readable |-> FALSE, auto_create |-> FALSE, create_content |-> None]

\* one call of smart_upload: the path (resolved), what is on disk there (a
\* file of some size, a directory, nothing), whether file_path is given as a
\* str or as a Path, whether the file can be opened for reading, and
\* auto_create / create_content
UploadInputs ==
    {f \in [path : SamplePaths, on_disk : {"file", "dir", "missing"},
            size : SampleSizes, arg : {"str", "Path"}, readable : BOOLEAN,
            auto_create : BOOLEAN, create_content : {None, Str(<<"h", "i">>)}] :
        /\ f.on_disk = "file" => ~f.auto_create /\ f.create_content = None
        /\ f.on_disk # "file" => f.size = 0 /\ f.readable
        /\ f.on_disk = "dir" => f.arg = "str" /\ ~f.auto_create /\ f.create_content = None}

\* _verify_or_create_file as smart_upload calls it: the content is passed
\* only when auto_create and create_content are both truthy
VerifyOrCreate(f) ==
    CASE f.on_disk = "file" -> [success |-> TRUE, created |-> FALSE, size |-> f.size]
      [] f.on_disk = "dir" -> [success |-> FALSE, created |-> FALSE, size |-> 0]
      [] OTHER ->
           IF f.auto_create /\ Truthy(f.create_content)
           THEN [success |-> TRUE, created |-> TRUE, size |-> Len(f.create_content.text)]
           ELSE [success |-> FALSE, created |-> FALSE, size |-> 0]

\* a result of smart_upload or of one strategy: returned or raised, the keys
\* 'success', 'method', 'workflow_step' ("none": no such key), the error, and
\* whether there is a key 'suggestion' with a non-empty string
NoResult ==
    [how |-> "none", success |-> FALSE, method |-> "none",
     workflow_step |-> "none", error |-> "none", suggestion |-> FALSE]

Succeeded(method) ==
    [how |-> "return", success |-> TRUE, method |-> method,
     workflow_step |-> "none", error |-> "none", suggestion |-> FALSE]

Failed(method, error) ==
    [how |-> "return", success |-> FALSE, method |-> method,
     workflow_step |-> "none", error |-> error, suggestion |-> FALSE]

\* a failure envelope with 'success', 'error', 'suggestion' and no 'method'
Advised(error) ==
    [how |-> "return", success |-> FALSE, method |-> "none",
     workflow_step |-> "none", error |-> error, suggestion |-> TRUE]

Raised(exc) ==
    [how |-> "raise", success |-> FALSE, method |-> "none",
     workflow_step |-> "none", error |-> exc, suggestion |-> FALSE]

\* the two failures smart_upload returns before it selects a strategy
VerificationFailed ==
    [how |-> "return", success |-> FALSE, method |-> "none",
     workflow_step |-> "file_verification", error |-> "file verification",
     suggestion |-> TRUE]

SensitiveRejected == Advised("sensitive file")

\* the failure envelopes of _upload_as_file: they have no 'method' key
FileTooLarge == Advised("file larger than 1GB")
FileFailure == Advised("file upload exception")

\* _upload_as_snippet: except Exception around everything it does
SnippetWraps(res) ==
    IF res.how = "raise" THEN Failed("code_snippet", res.error) ELSE res

\* the result of _upload_as_file reaches smart_upload directly or through
\* _upload_as_snippet
Through(m, res) == IF m = "code_snippet" THEN SnippetWraps(res) ELSE res

\* smart_upload builds its result from upload_result: upload_result['method']
\* is a KeyError when the key is missing
Combine(res) ==
    IF res.how = "return" /\ res.method = "none" THEN Raised("KeyError") ELSE res

\* the tool upload_file_to_slack: the result of smart_upload as it is, or the
\* envelope of its except Exception
UploadFileToSlack(res) ==
    IF res.how = "raise" THEN Advised(res.error) ELSE res

\* the first thing a strategy does: it ends at once with a result, or it
\* begins a request -- a chat message, an upload through slack_sdk, the
\* first request of the three-step upload
Ends(res) == [kind |-> "finish", result |-> res, user |-> FALSE, content |-> FALSE]
Begins(kind, user, content) ==
    [kind |-> kind, result |-> NoResult, user |-> user, content |-> content]

\* the read fails and the three-step upload is tried instead
UploadAsMessageFallsBack(f) ==
    IF ~f.readable
    THEN Begins("request", FALSE, FALSE)
    ELSE Begins("message", FALSE, TRUE)

\* _upload_as_message up to send_message
UploadAsMessage(f) ==
    IF ~f.readable
    THEN Ends(Failed("text_message", "OSError"))
    ELSE Begins("message", FALSE, TRUE)

\* _upload_as_file asks for its upload URL under the bot token, whatever the size
UploadAsFileBotOnly(f, size, sdk_available) ==
    IF size > large
    THEN Ends(FileTooLarge)
    ELSE IF sdk_available
    THEN Begins("sdk", FALSE, TRUE)
    ELSE Begins("request", FALSE, FALSE)

\* _upload_as_file up to its first request
UploadAsFile(f, size, sdk_available) ==
    IF size > large
    THEN Ends(FileTooLarge)
    ELSE IF sdk_available
    THEN Begins("sdk", size > standard, TRUE)
    ELSE Begins("request", size > standard, FALSE)

\* _upload_as_snippet up to its first request: with slack_sdk the file is
\* read and file_path.suffix taken (a str has none); without, _upload_as_file
UploadAsSnippet(f, size, sdk_available) ==
    IF sdk_available
    THEN IF ~f.readable
         THEN Ends(Failed("code_snippet", "OSError"))
         ELSE IF f.arg = "str"
         THEN Ends(Failed("code_snippet", "AttributeError"))
         ELSE Begins("sdk", FALSE, TRUE)
    ELSE UploadAsFile(f, size, sdk_available)

\* _share_file_info up to send_message: file_path.stat() (a str has none)
ShareFileInfo(f) ==
    IF f.arg = "str"
    THEN Ends(Failed("file_info_only", "AttributeError"))
    ELSE Begins("message", FALSE, FALSE)

\* the strategy smart_upload calls
Launch(m, f, size, sdk_available) ==
    CASE m = "text_message" -> UploadAsMessage(f)
      [] m = "code_snippet" -> UploadAsSnippet(f, size, sdk_available)
      [] m = "file_upload" -> UploadAsFile(f, size, sdk_available)
      [] OTHER -> ShareFileInfo(f)

\* _upload_as_message / _share_file_info after send_message: its envelope, or
\* the exception it let through, caught by except Exception
AfterMessage(m, r) ==
    LET sent == SendMessageReply(r)
    IN  IF sent.how = "raise"
        THEN Failed(m, sent.exc)
        ELSE IF sent.success THEN Succeeded(m) ELSE Failed(m, "message send failed")

\* the upload goes on to the PUT whatever the dispatcher reported
AfterUploadUrlGoesOn(r, readable) == NoResult

\* _upload_as_file after files.getUploadURLExternal: "go on" when the body
\* has upload_url and file_id and the file opens
AfterUploadUrl(r, readable) ==
    IF r.how = "raise"
    THEN IF r.exc = "SlackAPIError" THEN FileFailure ELSE Raised(r.exc)
    ELSE IF r.payload # "complete"
    THEN Raised("KeyError")
    ELSE IF ~readable THEN Raised("OSError") ELSE NoResult

\* what the PUT to the upload URL can end in
PutOutcomes == {"200", "500", "ClientError", "TimeoutError"}

\* the PUT's status is not looked at
AfterPutIgnoresStatus(status) == NoResult

\* _upload_as_file after the PUT: "go on" on status 200
AfterPut(status) ==
    CASE status = "200" -> NoResult
      [] status = "500" -> FileFailure
      [] OTHER -> Raised(status)

\* _upload_as_file after files.completeUploadExternal
AfterComplete(r) ==
    IF r.how = "raise"
    THEN IF r.exc = "SlackAPIError" THEN FileFailure ELSE Raised(r.exc)
    ELSE IF r.payload = "complete" THEN Succeeded("file_upload") ELSE FileFailure

\* what files_upload_v2 of slack_sdk can end in: its response, its own
\* SlackApiError, a transport error; without a token the remote refuses
SdkOutcomes(token) ==
    (IF Truthy(token) THEN {"ok"} ELSE {}) \cup {"SlackApiError", "ClientError"}

\* after files_upload_v2: slack_sdk's SlackApiError is not the client's
\* SlackAPIError, no except SlackAPIError clause catches it
AfterSdk(m, outcome) ==
    IF outcome = "ok" THEN Succeeded(m) ELSE Raised(outcome)

\* the bodies and failures the remote answers an upload's requests with
UploadAnswers ==
    {Outcome("ok", NoCode, NoHeader, NoNeeded, p) : p \in {"complete", "bare"}}
    \cup {Outcome("not_ok", c, NoHeader, NoNeeded, "none") :
             c \in {"channel_not_found", "ratelimited"}}
    \cup {Outcome(k, NoCode, NoHeader, NoNeeded, "none") :
             k \in {"bad_json", "conn_error", "timeout"}}

\* what a transmission of operation o can end in, the operation having made n
\* dispatcher calls
Answers(o, n) ==
    CASE o = "get_channels" ->
           Failures \cup
           {Outcome("ok", NoCode, NoHeader, NoNeeded, p.id) :
               p \in {q \in ChannelPages :
                         n < MaxPages \/ ~Truthy(NextCursorOf(q))}}
      [] o = "get_users" ->
           Failures \cup
           {Outcome("ok", NoCode, NoHeader, NoNeeded, p.id) : p \in UserPages}
      [] o = "smart_upload" -> UploadAnswers
      [] OTHER -> Outcomes

(***************************************************************************)
(* Actions.                                                                *)
(***************************************************************************)
\* no listing has begun
NoWalk ==
    /\ args = NoArgs
    /\ all_channels = <<>>
    /\ cursor = None
    /\ calls = 0
    /\ requests = <<>>
    /\ pages = <<>>
    /\ listing = <<>>

\* no upload has begun
NoUpload ==
    /\ file = NoFile
    /\ created = FALSE
    /\ file_size = 0
    /\ strategy = "none"
    /\ steps = <<>>
    /\ step_auth = <<>>
    /\ step_results = <<>>
    /\ sent_bytes = 0
    /\ upload_result = NoResult
    /\ result = NoResult

\* the number of tool calls of the server that are followed
MaxCalls == 3

Tasks == 1..MaxCalls

\* the timers a run follows, the cancel_timer calls it makes, the minutes it lasts
MaxTimers == 2
MaxCancels == 2
MaxTime == 2

Timers == 1..MaxTimers
Cancels == 1..MaxCancels

\* a start_timer call that has not computed its times
NoStart == [timer_type |-> "none", duration |-> 0, start_time |-> 0]

\* a timer_id that is not a key of active_timers
NoTimer == [registered |-> FALSE, is_active |-> FALSE, end_time |-> 0]

\* a timer's countdown task that has not been created
NoTask == [pc |-> "none", wake |-> 0, cancelling |-> FALSE, ended |-> "none"]

\* no send_message call, no message in the channel
NoMessages == [start |-> 0, end |-> 0, cancel |-> 0]

\* neither get_timer_status nor list_active_timers has been called
NoReport == [query |-> "none", timer_id |-> 0, status |-> "none", active |-> {}]

\* PomodoroTimerManager.__init__: self.active_timers = {}, and no call yet
NoTimers ==
    /\ now = 0
    /\ active_timers = [t \in Timers |-> NoTimer]
    /\ timer_task = [t \in Timers |-> NoTask]
    /\ start_pc = [t \in Timers |-> "new"]
    /\ start_args = [t \in Timers |-> NoStart]
    /\ cancel_pc = [c \in Cancels |-> "new"]
    /\ cancel_target = [c \in Cancels |-> 0]
    /\ send_calls = [t \in Timers |-> NoMessages]
    /\ posted = [t \in Timers |-> NoMessages]
    /\ report = NoReport

\* the server has not been used: the module's globals after import
NoServer ==
    /\ slack_client = 0
    /\ pomodoro_manager = FALSE
    /\ clients_created = 0
    /\ sessions_created = 0
    /\ initialize_lock = 0
    /\ task_kind = [t \in Tasks |-> "slack"]
    /\ task_pc = [t \in Tasks |-> "new"]
    /\ task_client = [t \in Tasks |-> 0]
    /\ close_pc = "idle"
    /\ NoTimers

\* a call has not begun
NoCall ==
    /\ NoWalk
    /\ NoUpload
    /\ NoServer
    /\ session = "none"
    /\ auth = None
    /\ op = "none"
    /\ attempt = 0
    /\ transmissions = 0
    /\ outcomes = <<>>
    /\ waits = <<>>
    /\ raw = NoRaw
    /\ reply = NoReply

\* before __init__: the inputs of the constructor are fixed, no client yet
InitNew ==
    /\ max_retries \in SampleRetries
    /\ rate_limit_delay = 1
    /\ exponential_backoff_base = 2
    /\ ctor \in CtorInputs
    /\ bot_token = None
    /\ user_token = None
    /\ sdk = FALSE
    /\ pc = "new"
    /\ NoCall

\* SlackAPIClient(bot_token, user_token)
ConstructClient ==
    /\ pc = "new"
    /\ LET c == Construct(ctor)
       IN  /\ bot_token' = c.bot_token
           /\ user_token' = c.user_token
           /\ pc' = IF c.ok THEN "idle" ELSE "ctor_failed"
    /\ UNCHANGED <<max_retries, rate_limit_delay, exponential_backoff_base, ctor,
                   srvVars, sdk, session, auth, op, attempt, transmissions, outcomes,
                   waits, raw, reply, walkVars, upVars>>

\* a client as its constructor left it
Init ==
    /\ max_retries \in 0..MaxRetriesBound
    /\ rate_limit_delay \in RateLimitDelays
    /\ exponential_backoff_base \in BackoffBases
    /\ ctor \in CallerInputs
    /\ Construct(ctor).ok
    /\ bot_token = Construct(ctor).bot_token
    /\ user_token = Construct(ctor).user_token
    /\ sdk = FALSE
    /\ NoWalk
    /\ NoUpload
    /\ NoServer
    /\ session = "none"
    /\ auth = None
    /\ op = "none"
    /\ pc = "idle"
    /\ attempt = 0
    /\ transmissions = 0
    /\ outcomes = <<>>
    /\ waits = <<>>
    /\ raw = NoRaw
    /\ reply = NoReply

\* the lines of _make_request before the loop: _ensure_session, _get_headers
Enter(o, use_user_token) ==
    /\ session' = "open"
    /\ attempt' = 0
    /\ transmissions' = 0
    /\ outcomes' = <<>>
    /\ waits' = <<>>
    /\ IF HeadersRaise(use_user_token, user_token)
       THEN /\ auth' = None
            /\ raw' = RaisesOther("ValueError")
            /\ reply' = ReplyOf(o, raw')
            /\ pc' = "done"
       ELSE /\ auth' = Bearer(use_user_token, bot_token, user_token)
            /\ raw' = NoRaw
            /\ reply' = NoReply
            /\ pc' = "loop"
    /\ UNCHANGED <<cfgVars, srvVars>>

\* an operation of the idle client calls _make_request
Prologue(o, use_user_token) ==
    /\ pc = "idle"
    /\ op' = o
    /\ Enter(o, use_user_token)

\* send_message(channel, text): _make_request('chat.postMessage', 'POST', data,
\* use_user_token=False)
CallSendMessage ==
    /\ Prologue("send_message", FALSE)
    /\ UNCHANGED <<walkVars, upVars>>

\* _make_request called by another operation, with either credential
CallMakeRequest ==
    /\ \E use_user_token \in BOOLEAN :
          Prologue(IF use_user_token THEN "make_request_user" ELSE "make_request",
                   use_user_token)
    /\ UNCHANGED <<walkVars, upVars>>

\* search_messages(query): without a user token the envelope is returned at
\* once; else _make_request('search.messages', 'GET', params,
\* use_user_token=True)
CallSearchMessages ==
    /\ IF ~Truthy(user_token)
       THEN /\ pc = "idle"
            /\ op' = "search_messages"
            /\ reply' = SearchNeedsToken
            /\ pc' = "done"
            /\ UNCHANGED <<cfgVars, srvVars, session, auth, attempt, transmissions,
                           outcomes, waits, raw>>
       ELSE Prologue("search_messages", TRUE)
    /\ UNCHANGED <<walkVars, upVars>>

\* get_channels(): the first round of the loop, without a cursor
CallGetChannels ==
    /\ Prologue("get_channels", FALSE)
    /\ all_channels' = <<>>
    /\ cursor' = None
    /\ calls' = 1
    /\ requests' = <<None>>
    /\ pages' = <<>>
    /\ listing' = <<>>
    /\ UNCHANGED <<args, upVars>>

\* get_channels: the next round of the loop
NextPage ==
    /\ pc = "next_page"
    /\ calls <= MaxPages
    /\ Enter(op, FALSE)
    /\ calls' = calls + 1
    /\ requests' = Append(requests, NextParams(requests[Len(requests)], cursor))
    /\ UNCHANGED <<op, args, all_channels, cursor, pages, listing, upVars>>

\* get_users(include_bots, limit, user_types): _make_request('users.list',
\* 'GET', {'limit': limit}, use_user_token=False)
CallGetUsers ==
    /\ Prologue("get_users", FALSE)
    /\ args' \in UserArgs
    /\ calls' = 1
    /\ requests' = <<None>>
    /\ pages' = <<>>
    /\ listing' = <<>>
    /\ UNCHANGED <<all_channels, cursor, upVars>>

\* get_channels has the dispatcher's result r
ChannelsResume(r) ==
    IF r.how # "return"
    THEN /\ reply' = WalkFailure(r, all_channels).reply
         /\ listing' = WalkFailure(r, all_channels).listing
         /\ pc' = "done"
         /\ UNCHANGED <<args, all_channels, cursor, calls, requests, pages>>
    ELSE LET page == ChannelPageOf(r.payload)
         IN  /\ pages' = Append(pages, r.payload)
             /\ all_channels' = Extend(all_channels, page.channels)
             /\ IF NextCursorRaises(page)
                THEN /\ reply' = DirectReply(RaisesOther("AttributeError"))
                     /\ pc' = "done"
                     /\ UNCHANGED <<cursor, listing>>
                ELSE /\ cursor' = NextCursorOf(page)
                     /\ IF StopsWalk(cursor')
                        THEN /\ listing' = FormatChannels(all_channels')
                             /\ reply' = ListingReply
                             /\ pc' = "done"
                        ELSE /\ pc' = "next_page"
                             /\ UNCHANGED <<reply, listing>>
             /\ UNCHANGED <<args, calls, requests>>

\* get_users has the dispatcher's result r
UsersResume(r) ==
    /\ IF r.how # "return"
       THEN /\ reply' = DirectReply(r)
            /\ UNCHANGED <<pages, listing>>
       ELSE /\ pages' = Append(pages, r.payload)
            /\ listing' = FormatUsers(UserPageOf(r.payload).members, <<>>, args)
            /\ reply' = ListingReply
    /\ pc' = "done"
    /\ UNCHANGED <<args, all_channels, cursor, calls, requests>>

\* smart_upload(file_path, channel_id, ...): verification, the sensitivity
\* check, the choice of a strategy, and the strategy up to its first request
CallSmartUpload ==
    /\ pc = "idle"
    /\ op' = "smart_upload"
    /\ \E f \in UploadInputs :
          LET v == VerifyOrCreate(f)
              m == Strategy(Lower(SuffixOf(f.path)), v.size)
              l == Launch(m, f, v.size, sdk)
              rejected == ~v.success \/ IsSensitiveFile(f.path)
          IN  /\ file' = f
              /\ created' = v.created
              /\ file_size' = v.size
              /\ strategy' = IF rejected THEN "none" ELSE m
              /\ step_results' = <<>>
              /\ CASE ~v.success ->
                        /\ upload_result' = NoResult
                        /\ result' = VerificationFailed
                        /\ pc' = "done"
                        /\ steps' = <<>>
                        /\ step_auth' = <<>>
                        /\ sent_bytes' = 0
                        /\ UNCHANGED <<cfgVars, srvVars, session, auth, attempt,
                                       transmissions, outcomes, waits, raw, reply>>
                   [] v.success /\ IsSensitiveFile(f.path) ->
                        /\ upload_result' = NoResult
                        /\ result' = SensitiveRejected
                        /\ pc' = "done"
                        /\ steps' = <<>>
                        /\ step_auth' = <<>>
                        /\ sent_bytes' = 0
                        /\ UNCHANGED <<cfgVars, srvVars, session, auth, attempt,
                                       transmissions, outcomes, waits, raw, reply>>
                   [] ~rejected /\ l.kind = "finish" ->
                        /\ upload_result' = l.result
                        /\ result' = Combine(upload_result')
                        /\ pc' = "done"
                        /\ steps' = <<>>
                        /\ step_auth' = <<>>
                        /\ sent_bytes' = 0
                        /\ UNCHANGED <<cfgVars, srvVars, session, auth, attempt,
                                       transmissions, outcomes, waits, raw, reply>>
                   [] ~rejected /\ l.kind = "sdk" ->
                        /\ upload_result' = NoResult
                        /\ result' = NoResult
                        /\ pc' = "sdk"
                        /\ steps' = <<"files_upload_v2">>
                        /\ step_auth' = <<Bearer(l.user, bot_token, user_token)>>
                        /\ sent_bytes' = v.size
                        /\ UNCHANGED <<cfgVars, srvVars, session, auth, attempt,
                                       transmissions, outcomes, waits, raw, reply>>
                   [] ~rejected /\ l.kind = "message" ->
                        /\ Enter("smart_upload", FALSE)
                        /\ upload_result' = NoResult
                        /\ result' = NoResult
                        /\ steps' = <<"chat.postMessage">>
                        /\ step_auth' = <<bot_token>>
                        /\ sent_bytes' = IF l.content THEN v.size ELSE 0
                   [] ~rejected /\ l.kind = "request" ->
                        /\ Enter("smart_upload", l.user)
                        /\ sent_bytes' = 0
                        /\ IF HeadersRaise(l.user, user_token)
                           THEN /\ upload_result' = Through(m, Raised("ValueError"))
                                /\ result' = Combine(upload_result')
                                /\ steps' = <<>>
                                /\ step_auth' = <<>>
                           ELSE /\ upload_result' = NoResult
                                /\ result' = NoResult
                                /\ steps' = <<"files.getUploadURLExternal">>
                                /\ step_auth' = <<Bearer(l.user, bot_token, user_token)>>
    /\ UNCHANGED walkVars

\* an upload has the dispatcher's result r for its last request
UploadResume(r) ==
    LET last == steps[Len(steps)]
        res == CASE last = "chat.postMessage" -> AfterMessage(strategy, r)
                 [] last = "files.getUploadURLExternal" ->
                      Through(strategy, AfterUploadUrl(r, file.readable))
                 [] OTHER -> Through(strategy, AfterComplete(r))
    IN  /\ step_results' = Append(step_results, IF r.how = "return" THEN "ok" ELSE r.exc)
        /\ IF res = NoResult
           THEN /\ pc' = "put"
                /\ steps' = Append(steps, "PUT")
                /\ step_auth' = Append(step_auth, None)
                /\ sent_bytes' = sent_bytes + file_size
                /\ UNCHANGED <<reply, file, created, file_size, strategy,
                               upload_result, result>>
           ELSE /\ pc' = "done"
                /\ upload_result' = res
                /\ result' = Combine(upload_result')
                /\ UNCHANGED <<reply, file, created, file_size, strategy, steps,
                               step_auth, sent_bytes>>

\* the PUT of the file's bytes to the upload URL is over
PutDone ==
    /\ pc = "put"
    /\ \E status \in PutOutcomes :
          LET res == Through(strategy, AfterPut(status))
              use_user_token == file_size > standard
          IN  /\ step_results' = Append(step_results, status)
              /\ IF res = NoResult
                 THEN /\ Enter("smart_upload", use_user_token)
                      /\ IF HeadersRaise(use_user_token, user_token)
                         THEN /\ upload_result' = Through(strategy, Raised("ValueError"))
                              /\ result' = Combine(upload_result')
                              /\ UNCHANGED <<steps, step_auth>>
                         ELSE /\ upload_result' = NoResult
                              /\ result' = NoResult
                              /\ steps' = Append(steps, "files.completeUploadExternal")
                              /\ step_auth' =
                                    Append(step_auth,
                                           Bearer(use_user_token, bot_token, user_token))
                 ELSE /\ pc' = "done"
                      /\ upload_result' = res
                      /\ result' = Combine(upload_result')
                      /\ UNCHANGED <<cfgVars, srvVars, session, auth, attempt, transmissions,
                                     outcomes, waits, raw, reply, steps, step_auth>>
    /\ UNCHANGED <<op, walkVars, file, created, file_size, strategy, sent_bytes>>

\* files_upload_v2 of slack_sdk is over
SdkReturn ==
    /\ pc = "sdk"
    /\ \E outcome \in SdkOutcomes(step_auth[Len(step_auth)]) :
          /\ step_results' = Append(step_results, outcome)
          /\ upload_result' = Through(strategy, AfterSdk(strategy, outcome))
          /\ result' = Combine(upload_result')
    /\ pc' = "done"
    /\ UNCHANGED <<cfgVars, srvVars, session, auth, op, attempt, transmissions, outcomes,
                   waits, raw, reply, walkVars, file, created, file_size, strategy,
                   steps, step_auth, sent_bytes>>

\* _make_request is over: its result r goes to the operation that called it
Deliver(r) ==
    CASE op = "get_channels" -> ChannelsResume(r) /\ UNCHANGED upVars
      [] op = "get_users" -> UsersResume(r) /\ UNCHANGED upVars
      [] op = "smart_upload" -> UploadResume(r) /\ UNCHANGED walkVars
      [] OTHER -> /\ reply' = ReplyOf(op, r)
                  /\ pc' = "done"
                  /\ UNCHANGED <<walkVars, upVars>>

\* self._session.request(...) on a session that is None (AttributeError) or
\* closed (aiohttp's RuntimeError 'Session is closed'): neither is an
\* aiohttp.ClientError nor a SlackAPIError
SessionFault(s) == RaisesOther(IF s = "none" THEN "AttributeError" ELSE "RuntimeError")

\* the loop goes round: self._session.request(...) is sent
Transmit ==
    /\ pc = "loop"
    /\ LoopContinues(attempt, max_retries)
    /\ IF session = "open"
       THEN /\ transmissions' = transmissions + 1
            /\ pc' = "inflight"
            /\ UNCHANGED <<raw, reply, walkVars, upVars>>
       ELSE /\ raw' = SessionFault(session)
            /\ Deliver(raw')
            /\ UNCHANGED transmissions
    /\ UNCHANGED <<cfgVars, srvVars, session, auth, op, attempt, outcomes, waits>>

\* the loop is over without a return or a raise
LoopExhausted ==
    /\ pc = "loop"
    /\ ~LoopContinues(attempt, max_retries)
    /\ raw' = AfterLoop(max_retries)
    /\ Deliver(raw')
    /\ UNCHANGED <<cfgVars, srvVars, session, auth, op, attempt, transmissions, outcomes, waits>>

\* the transmission ends and the iteration runs to its next suspension point
Receive ==
    /\ pc = "inflight"
    /\ \E o \in Answers(op, calls) :
          LET s == Step(o, attempt, max_retries, rate_limit_delay,
                        exponential_backoff_base)
          IN  /\ outcomes' = Append(outcomes, o)
              /\ IF s.act = "finish"
                 THEN /\ raw' = s.raw
                      /\ Deliver(s.raw)
                      /\ UNCHANGED waits
                 ELSE /\ waits' = Append(waits, s.delay)
                      /\ pc' = "sleeping"
                      /\ UNCHANGED <<raw, reply, walkVars, upVars>>
    /\ UNCHANGED <<cfgVars, srvVars, session, auth, op, attempt, transmissions>>

\* asyncio.sleep is over: the loop takes its next index
Wake ==
    /\ pc = "sleeping"
    /\ attempt' = NextAttempt(attempt, outcomes[Len(outcomes)].kind)
    /\ pc' = "loop"
    /\ UNCHANGED <<cfgVars, srvVars, session, auth, op, transmissions, outcomes, waits, raw, reply,
                   walkVars, upVars>>

\* the caller has its result; the client is ready for the next call
Forget ==
    /\ pc = "done"
    /\ pc' = "idle"
    /\ op' = "none"
    /\ attempt' = 0
    /\ transmissions' = 0
    /\ outcomes' = <<>>
    /\ waits' = <<>>
    /\ raw' = NoRaw
    /\ reply' = NoReply
    /\ auth' = None
    /\ args' = NoArgs
    /\ all_channels' = <<>>
    /\ cursor' = None
    /\ calls' = 0
    /\ requests' = <<>>
    /\ pages' = <<>>
    /\ listing' = <<>>
    /\ file' = NoFile
    /\ created' = FALSE
    /\ file_size' = 0
    /\ strategy' = "none"
    /\ steps' = <<>>
    /\ step_auth' = <<>>
    /\ step_results' = <<>>
    /\ sent_bytes' = 0
    /\ upload_result' = NoResult
    /\ result' = NoResult
    /\ UNCHANGED <<cfgVars, srvVars, session>>

Next ==
    \/ CallSendMessage
    \/ CallMakeRequest
    \/ CallSearchMessages
    \/ Transmit
    \/ LoopExhausted
    \/ Receive
    \/ Wake
    \/ Forget

Spec == Init /\ [][Next]_vars

\* close() up to its await: the test of line 209, then session.close() marks
\* the session closed and suspends
CloseBegin ==
    /\ close_pc = "idle"
    /\ session = "open"
    /\ session' = "closed"
    /\ close_pc' = "closing"
    /\ UNCHANGED <<cfgVars, auth, callVars, walkVars, upVars, slack_client,
                   pomodoro_manager, clients_created, sessions_created,
                   initialize_lock, task_kind, task_pc, task_client, tmrVars>>

\* close() resumes: self._session = None, whatever self._session is by now
CloseEnd ==
    /\ close_pc = "closing"
    /\ session' = "none"
    /\ close_pc' = "idle"
    /\ UNCHANGED <<cfgVars, auth, callVars, walkVars, upVars, slack_client,
                   pomodoro_manager, clients_created, sessions_created,
                   initialize_lock, task_kind, task_pc, task_client, tmrVars>>

NextSession ==
    \/ Next
    \/ CloseBegin
    \/ CloseEnd

\* calls of the client interleaved with calls of close()
SpecSession == Init /\ [][NextSession]_vars

\* the task of the call is cancelled: what its await raises
Cancelled == Outcome("cancelled", NoCode, NoHeader, NoNeeded, "none")

\* the iteration ends in s: the call is over, or it sleeps
EndIteration(s) ==
    IF s.act = "finish"
    THEN /\ raw' = s.raw
         /\ Deliver(s.raw)
         /\ UNCHANGED waits
    ELSE /\ waits' = Append(waits, s.delay)
         /\ pc' = "sleeping"
         /\ UNCHANGED <<raw, reply, walkVars, upVars>>

\* the call is cancelled while its transmission is in flight: the await of
\* the request or of the body raises inside the try
CancelInFlight ==
    /\ pc = "inflight"
    /\ outcomes' = Append(outcomes, Cancelled)
    /\ EndIteration(Step(Cancelled, attempt, max_retries, rate_limit_delay,
                     exponential_backoff_base))
    /\ UNCHANGED <<cfgVars, srvVars, session, auth, op, attempt, transmissions>>

\* the call is cancelled in asyncio.sleep: the rate-limit wait is inside the
\* try, the back-off wait inside the handler of aiohttp.ClientError, where no
\* except clause of the loop applies
CancelWait ==
    /\ pc = "sleeping"
    /\ outcomes' = Append(outcomes, Cancelled)
    /\ EndIteration(IF outcomes[Len(outcomes)].kind = "not_ok"
                THEN Step(Cancelled, attempt, max_retries, rate_limit_delay,
                          exponential_backoff_base)
                ELSE Finish(RaisesOther(ExceptionOf(Cancelled.kind))))
    /\ UNCHANGED <<cfgVars, srvVars, session, auth, op, attempt, transmissions>>

\* the calls of a client whose task can be cancelled at every await
NextCancel ==
    \/ Next
    \/ CancelInFlight
    \/ CancelWait

SpecCancel == Init /\ [][NextCancel]_vars

\* the constructor and then the calls of the client it made
NextConstruct ==
    \/ ConstructClient
    \/ Next

SpecConstruct == InitNew /\ [][NextConstruct]_vars

\* a client whose listings are followed
InitWalk ==
    /\ max_retries \in SampleRetries
    /\ rate_limit_delay = 1
    /\ exponential_backoff_base = 2
    /\ ctor = [bot_arg |-> Str(BotPrefix \o <<"1">>), user_arg |-> None,
               bot_env |-> None, user_env |-> None]
    /\ bot_token = Construct(ctor).bot_token
    /\ user_token = Construct(ctor).user_token
    /\ sdk = FALSE
    /\ pc = "idle"
    /\ NoCall

NextWalk ==
    \/ CallGetChannels
    \/ CallGetUsers
    \/ NextPage
    \/ Transmit
    \/ LoopExhausted
    \/ Receive
    \/ Wake
    \/ Forget

SpecWalk == InitWalk /\ [][NextWalk]_vars

\* every dispatcher call returns: a step that can be taken is taken
SpecWalkLive == SpecWalk /\ WF_vars(NextWalk)

\* a client whose uploads are followed, with or without the elevated token,
\* with or without slack_sdk
InitUpload ==
    /\ max_retries \in SampleRetries
    /\ rate_limit_delay = 1
    /\ exponential_backoff_base = 2
    /\ ctor \in [bot_arg : {Str(BotPrefix \o <<"1">>)},
                  user_arg : {None, Str(UserPrefix \o <<"1">>)},
                  bot_env : {None}, user_env : {None}]
    /\ bot_token = Construct(ctor).bot_token
    /\ user_token = Construct(ctor).user_token
    /\ sdk \in BOOLEAN
    /\ pc = "idle"
    /\ NoCall

NextUpload ==
    \/ CallSmartUpload
    \/ SdkReturn
    \/ PutDone
    \/ Transmit
    \/ LoopExhausted
    \/ Receive
    \/ Wake
    \/ Forget

SpecUpload == InitUpload /\ [][NextUpload]_vars

(***************************************************************************)
(* The server: tool calls that run as tasks of one event loop and share    *)
(* the globals slack_client and pomodoro_manager.  A task runs from one    *)
(* await that suspends to the next.                                        *)
(***************************************************************************)
\* the environment the server's SlackAPIClient() reads its tokens from
ServerEnv ==
    [bot_arg : {None}, user_arg : {None},
     bot_env : {None, Str(BotPrefix \o <<"1">>), Str(UserPrefix \o <<"1">>)},
     user_env : {None, Str(UserPrefix \o <<"1">>)}]

\* what test_connection can end in: its success envelope, its failure
\* envelope (a SlackAPIError of the dispatcher), an exception it lets through
TestOutcomes == {"success", "failure", "exception"}

srvOther == <<max_retries, rate_limit_delay, exponential_backoff_base, ctor, sdk,
              auth, callVars, walkVars, upVars, task_kind, close_pc, tmrVars>>

\* the first line of a tool: slack_client is None, pomodoro_manager is None
ToolNeedsInit(kind) ==
    IF kind = "slack" THEN slack_client = 0 ELSE ~pomodoro_manager

\* the test is missing: every caller that gets the lock constructs a client
ClientMissingAlways(client) == TRUE

\* initialize_clients, under the lock: if slack_client is None
ClientMissing(client) == client = 0

\* _ensure_session of the installed client
EnsureSession ==
    /\ session' = "open"
    /\ sessions_created' = IF session = "none" THEN sessions_created + 1
                                              ELSE sessions_created

\* the try block of tool call t, up to the await of its request: a tool of
\* the timers fails at once on pomodoro_manager None (an AttributeError its
\* except Exception turns into an envelope)
RunOperation(t, client, manager) ==
    IF task_kind[t] = "pomodoro" /\ ~manager
    THEN /\ task_pc' = [task_pc EXCEPT ![t] = "returned"]
         /\ UNCHANGED <<task_client, session, sessions_created>>
    ELSE /\ task_pc' = [task_pc EXCEPT ![t] = "call"]
         /\ task_client' = [task_client EXCEPT ![t] = client]
         /\ EnsureSession

\* tool call t has the lock: the body of initialize_clients up to the await of
\* the first connection test, or to its end
Initialize(t) ==
    IF ~ClientMissing(slack_client)
    THEN /\ initialize_lock' = 0
         /\ RunOperation(t, slack_client, pomodoro_manager)
         /\ UNCHANGED <<slack_client, pomodoro_manager, clients_created, bot_token,
                        user_token>>
    ELSE LET c == Construct(ctor)
         IN  IF ~c.ok
             THEN /\ initialize_lock' = 0
                  /\ task_pc' = [task_pc EXCEPT ![t] = "raised"]
                  /\ UNCHANGED <<slack_client, pomodoro_manager, clients_created,
                                 bot_token, user_token, session, sessions_created,
                                 task_client>>
             ELSE /\ initialize_lock' = t
                  /\ clients_created' = clients_created + 1
                  /\ slack_client' = clients_created'
                  /\ bot_token' = c.bot_token
                  /\ user_token' = c.user_token
                  /\ session' = "open"
                  /\ sessions_created' = sessions_created + 1
                  /\ task_pc' = [task_pc EXCEPT ![t] = "bot_test"]
                  /\ UNCHANGED <<pomodoro_manager, task_client>>

\* a tool is called: it runs to its first await that suspends (an asyncio.Lock
\* that is free and has no waiter is acquired without suspending)
Arrive(t) ==
    /\ task_pc[t] = "new"
    /\ IF ~ToolNeedsInit(task_kind[t])
       THEN /\ RunOperation(t, slack_client, pomodoro_manager)
            /\ UNCHANGED <<slack_client, pomodoro_manager, clients_created,
                           initialize_lock, bot_token, user_token>>
       ELSE IF initialize_lock = 0 /\ \A u \in Tasks : task_pc[u] # "waiting"
       THEN Initialize(t)
       ELSE /\ task_pc' = [task_pc EXCEPT ![t] = "waiting"]
            /\ UNCHANGED <<slack_client, pomodoro_manager, clients_created,
                           sessions_created, initialize_lock, task_client,
                           bot_token, user_token, session>>
    /\ UNCHANGED srvOther

\* the lock is released and a waiting tool call gets it
LockGranted(t) ==
    /\ task_pc[t] = "waiting"
    /\ initialize_lock = 0
    /\ Initialize(t)
    /\ UNCHANGED srvOther

\* test_connection(test_user_token=False) is over
BotTestDone(t) ==
    /\ task_pc[t] = "bot_test"
    /\ \E o \in TestOutcomes :
          IF o # "success"
          THEN /\ initialize_lock' = 0
               /\ task_pc' = [task_pc EXCEPT ![t] = "raised"]
               /\ UNCHANGED <<pomodoro_manager, task_client, session, sessions_created>>
          ELSE IF Truthy(user_token)
          THEN /\ task_pc' = [task_pc EXCEPT ![t] = "user_test"]
               /\ UNCHANGED <<initialize_lock, pomodoro_manager, task_client, session,
                              sessions_created>>
          ELSE /\ pomodoro_manager' = TRUE
               /\ initialize_lock' = 0
               /\ RunOperation(t, slack_client, TRUE)
    /\ UNCHANGED <<srvOther, slack_client, clients_created, bot_token, user_token>>

\* test_connection(test_user_token=True) is over: its envelope is only logged
UserTestDone(t) ==
    /\ task_pc[t] = "user_test"
    /\ \E o \in TestOutcomes :
          IF o = "exception"
          THEN /\ initialize_lock' = 0
               /\ task_pc' = [task_pc EXCEPT ![t] = "raised"]
               /\ UNCHANGED <<pomodoro_manager, task_client, session, sessions_created>>
          ELSE /\ pomodoro_manager' = TRUE
               /\ initialize_lock' = 0
               /\ RunOperation(t, slack_client, TRUE)
    /\ UNCHANGED <<srvOther, slack_client, clients_created, bot_token, user_token>>

\* the operation of tool call t is over: the tool returns its envelope, or
\* the envelope of its except Exception
CallDone(t) ==
    /\ task_pc[t] = "call"
    /\ task_pc' = [task_pc EXCEPT ![t] = "returned"]
    /\ UNCHANGED <<srvOther, slack_client, pomodoro_manager, clients_created,
                   sessions_created, initialize_lock, task_client, bot_token,
                   user_token, session>>

\* the server after import, with the tokens of its environment
InitServer ==
    /\ max_retries = 3
    /\ rate_limit_delay = 1
    /\ exponential_backoff_base = 2
    /\ ctor \in ServerEnv
    /\ bot_token = None
    /\ user_token = None
    /\ sdk = FALSE
    /\ pc = "new"
    /\ NoWalk
    /\ NoUpload
    /\ session = "none"
    /\ auth = None
    /\ op = "none"
    /\ attempt = 0
    /\ transmissions = 0
    /\ outcomes = <<>>
    /\ waits = <<>>
    /\ raw = NoRaw
    /\ reply = NoReply
    /\ slack_client = 0
    /\ pomodoro_manager = FALSE
    /\ clients_created = 0
    /\ sessions_created = 0
    /\ initialize_lock = 0
    /\ task_kind \in [Tasks -> {"slack", "pomodoro"}]
    /\ task_pc = [t \in Tasks |-> "new"]
    /\ task_client = [t \in Tasks |-> 0]
    /\ close_pc = "idle"
    /\ NoTimers

NextServer ==
    \/ \E t \in Tasks : Arrive(t)
    \/ \E t \in Tasks : LockGranted(t)
    \/ \E t \in Tasks : BotTestDone(t)
    \/ \E t \in Tasks : UserTestDone(t)
    \/ \E t \in Tasks : CallDone(t)

SpecServer == InitServer /\ [][NextServer]_vars

(***************************************************************************)
(* The timers: PomodoroTimerManager of pomodoro_timer.py.  A timer is the  *)
(* start_timer call that makes it, its entry of active_timers and the task *)
(* of its countdown; cancel_timer calls, the queries and the clean-up run  *)
(* between the suspension points of these.  Time is counted in units of   *)
(* the duration of a timer.                                                *)
(***************************************************************************)
\* the values of the enumeration TimerType
TimerTypeValues == {"study", "work", "break", "meeting", "custom"}

\* the timer_type arguments given: a supported and an unsupported one
SampleTypes == {"study", "nap"}

\* the duration_minutes arguments given: None, integers, a value that is no int
SampleDurations ==
    {[kind |-> "none", value |-> 0], [kind |-> "int", value |-> 0],
     [kind |-> "int", value |-> 1], [kind |-> "other", value |-> 1]}

\* the timer_id arguments given to cancel_timer and get_timer_status: the
\* first timer's, which is no key before its start and after a clean-up
SampleIds == {1}

\* how a send_message call of the manager ends: delivered, a failure envelope,
\* an exception the client lets through
SendOutcomes == {"success", "failure", "raise"}

tmrOther == <<cfgVars, session, auth, callVars, walkVars, upVars, slack_client,
              pomodoro_manager, clients_created, sessions_created,
              initialize_lock, task_kind, task_pc, task_client, close_pc>>

\* start_timer: duration_minutes None stands for the default of the type
DurationOf(d) == IF d.kind = "none" THEN [kind |-> "int", value |-> 1] ELSE d

\* start_timer: the two validations before anything is sent
Validated(timer_type, d) ==
    IF timer_type \notin TimerTypeValues THEN "bad_type"
    ELSE IF DurationOf(d).kind # "int" \/ DurationOf(d).value <= 0 THEN "bad_duration"
    ELSE "ok"

\* start_timer up to the await of the start notification
StartTimer(t, timer_type, d) ==
    /\ start_pc[t] = "new"
    /\ \A u \in Timers : u < t => start_pc[u] # "new"
    /\ LET v == Validated(timer_type, d)
       IN  IF v # "ok"
           THEN /\ start_pc' = [start_pc EXCEPT ![t] = v]
                /\ UNCHANGED <<start_args, send_calls>>
           ELSE /\ start_pc' = [start_pc EXCEPT ![t] = "notifying"]
                /\ start_args' = [start_args EXCEPT ![t] =
                      [timer_type |-> timer_type, duration |-> DurationOf(d).value,
                       start_time |-> now]]
                /\ send_calls' = [send_calls EXCEPT ![t].start = @ + 1]
    /\ UNCHANGED <<now, active_timers, timer_task, cancel_pc, cancel_target, posted,
                   report, tmrOther>>

\* the timer is registered whatever became of the start notification
RegistersAlways(o) == TRUE

\* start_timer: if not start_result['success'] return; an exception of
\* send_message ends in the except Exception
Registers(o) == o = "success"

\* start_timer after the start notification: the task is created and the timer
\* registered, or the call fails
StartNotified(t, o) ==
    /\ start_pc[t] = "notifying"
    /\ posted' = [posted EXCEPT ![t].start = IF o = "success" THEN @ + 1 ELSE @]
    /\ IF Registers(o)
       THEN /\ timer_task' = [timer_task EXCEPT ![t] =
                  [pc |-> "sleeping", wake |-> now + start_args[t].duration,
                   cancelling |-> FALSE, ended |-> "none"]]
            /\ active_timers' = [active_timers EXCEPT ![t] =
                  [registered |-> TRUE, is_active |-> TRUE,
                   end_time |-> start_args[t].start_time + start_args[t].duration]]
            /\ start_pc' = [start_pc EXCEPT ![t] = "started"]
       ELSE /\ start_pc' = [start_pc EXCEPT ![t] =
                  IF o = "failure" THEN "not_delivered" ELSE "error"]
            /\ UNCHANGED <<timer_task, active_timers>>
    /\ UNCHANGED <<now, start_args, cancel_pc, cancel_target, send_calls, report, tmrOther>>

\* is_active = False on the entry of the timer, if it is still a key
Deactivated(t) ==
    IF active_timers[t].registered
    THEN [active_timers EXCEPT ![t].is_active = FALSE]
    ELSE active_timers

\* the sleep of the countdown is over and its task has not run yet
Due(t) ==
    /\ timer_task[t].pc = "sleeping"
    /\ ~timer_task[t].cancelling
    /\ now >= timer_task[t].wake

\* _timer_countdown: asyncio.sleep is over; the completion notification is
\* sent if the timer is still a key of active_timers and active
Expire(t) ==
    /\ Due(t)
    /\ IF active_timers[t].registered /\ active_timers[t].is_active
       THEN /\ timer_task' = [timer_task EXCEPT ![t].pc = "sending"]
            /\ send_calls' = [send_calls EXCEPT ![t].end = @ + 1]
       ELSE /\ timer_task' = [timer_task EXCEPT ![t].pc = "done", ![t].ended = "skipped"]
            /\ UNCHANGED send_calls
    /\ UNCHANGED <<now, active_timers, start_pc, start_args, cancel_pc, cancel_target,
                   posted, report, tmrOther>>

\* the request of the completion notification is out and the message is in
\* the channel; the countdown awaits the response
EndPosted(t) ==
    /\ timer_task[t].pc = "sending"
    /\ ~timer_task[t].cancelling
    /\ timer_task' = [timer_task EXCEPT ![t].pc = "inflight"]
    /\ posted' = [posted EXCEPT ![t].end = @ + 1]
    /\ UNCHANGED <<now, active_timers, start_pc, start_args, cancel_pc, cancel_target,
                   send_calls, report, tmrOther>>

\* _timer_countdown: send_message is over; is_active = False after a result,
\* and in the except Exception after an exception
EndReturns(t, o) ==
    /\ timer_task[t].pc \in {"sending", "inflight"}
    /\ ~timer_task[t].cancelling
    /\ timer_task[t].pc = "sending" => o \in {"failure", "raise"}
    /\ timer_task[t].pc = "inflight" => o \in {"success", "raise"}
    /\ timer_task' = [timer_task EXCEPT ![t].pc = "done",
                         ![t].ended = IF o = "success" THEN "completed"
                                      ELSE IF o = "failure" THEN "undelivered"
                                      ELSE "error"]
    /\ active_timers' = Deactivated(t)
    /\ UNCHANGED <<now, start_pc, start_args, cancel_pc, cancel_target, send_calls,
                   posted, report, tmrOther>>

\* _timer_countdown: the CancelledError of task.cancel() arrives at the await
\* the task is suspended in
CountdownCancelled(t) ==
    /\ timer_task[t].pc \in {"sleeping", "sending", "inflight"}
    /\ timer_task[t].cancelling
    /\ timer_task' = [timer_task EXCEPT ![t].pc = "done", ![t].ended = "cancelled",
                                        ![t].cancelling = FALSE]
    /\ active_timers' = Deactivated(t)
    /\ UNCHANGED <<now, start_pc, start_args, cancel_pc, cancel_target, send_calls,
                   posted, report, tmrOther>>

\* cancel_timer: the timer is a key of active_timers and is active
Cancellable(timer) == timer.registered /\ timer.is_active

\* cancel_timer up to its first await: the two checks, task.cancel()
CancelTimer(c, timer_id) ==
    /\ cancel_pc[c] = "new"
    /\ \A u \in Cancels : u < c => cancel_pc[u] # "new"
    /\ cancel_target' = [cancel_target EXCEPT ![c] = timer_id]
    /\ IF ~Cancellable(active_timers[timer_id])
       THEN /\ cancel_pc' = [cancel_pc EXCEPT ![c] =
                  IF active_timers[timer_id].registered THEN "inactive" ELSE "not_found"]
            /\ UNCHANGED <<timer_task, active_timers, send_calls>>
       ELSE IF timer_task[timer_id].pc # "done"
       THEN /\ timer_task' = [timer_task EXCEPT ![timer_id].cancelling = TRUE]
            /\ cancel_pc' = [cancel_pc EXCEPT ![c] = "joining"]
            /\ UNCHANGED <<active_timers, send_calls>>
       ELSE /\ active_timers' = Deactivated(timer_id)
            /\ send_calls' = [send_calls EXCEPT ![timer_id].cancel = @ + 1]
            /\ cancel_pc' = [cancel_pc EXCEPT ![c] = "notifying"]
            /\ UNCHANGED timer_task
    /\ UNCHANGED <<now, start_pc, start_args, posted, report, tmrOther>>

\* cancel_timer: await timer.task is over; is_active = False, and the
\* cancellation notice is sent
CancelJoined(c) ==
    /\ cancel_pc[c] = "joining"
    /\ timer_task[cancel_target[c]].pc = "done"
    /\ active_timers' = Deactivated(cancel_target[c])
    /\ send_calls' = [send_calls EXCEPT ![cancel_target[c]].cancel = @ + 1]
    /\ cancel_pc' = [cancel_pc EXCEPT ![c] = "notifying"]
    /\ UNCHANGED <<now, timer_task, start_pc, start_args, cancel_target, posted,
                   report, tmrOther>>

\* cancel_timer after the notice: success with or without the notice; an
\* exception of send_message ends in the except Exception
CancelNotified(c, o) ==
    /\ cancel_pc[c] = "notifying"
    /\ posted' = [posted EXCEPT ![cancel_target[c]].cancel =
                     IF o = "success" THEN @ + 1 ELSE @]
    /\ cancel_pc' = [cancel_pc EXCEPT ![c] =
                        IF o = "success" THEN "succeeded"
                        ELSE IF o = "failure" THEN "succeeded_unnotified"
                        ELSE "error"]
    /\ UNCHANGED <<now, active_timers, timer_task, start_pc, start_args, cancel_target,
                   send_calls, report, tmrOther>>

\* get_timer_status: the status of a timer that is a key of active_timers
StatusOf(timer, current_time) ==
    IF timer.is_active /\ current_time < timer.end_time THEN "running"
    ELSE IF timer.is_active /\ current_time >= timer.end_time THEN "completed"
    ELSE "cancelled"

\* cancel_timer has passed its checks for the timer
CancelledThroughCancelTimer(t) ==
    \E c \in Cancels :
        /\ cancel_target[c] = t
        /\ cancel_pc[c] \in {"joining", "notifying", "succeeded", "succeeded_unnotified",
                             "error"}

\* get_timer_status(timer_id): what it reports, and the state it reports on
GetTimerStatus(timer_id) ==
    /\ report' = [query |-> "get_timer_status", timer_id |-> timer_id,
                   status |-> IF active_timers[timer_id].registered
                              THEN StatusOf(active_timers[timer_id], now)
                              ELSE "not_found",
                   active |-> {}]
    /\ UNCHANGED <<now, active_timers, timer_task, start_pc, start_args, cancel_pc,
                   cancel_target, send_calls, posted, tmrOther>>

\* list_active_timers: the timers with is_active
ListActiveTimers ==
    /\ report' = [query |-> "list_active_timers", timer_id |-> 0, status |-> "none",
                   active |-> {t \in Timers : active_timers[t].registered
                                                /\ active_timers[t].is_active}]
    /\ UNCHANGED <<now, active_timers, timer_task, start_pc, start_args, cancel_pc,
                   cancel_target, send_calls, posted, tmrOther>>

\* cleanup_completed_timers: should_cleanup
ShouldCleanup(timer, task, current_time) ==
    \/ ~timer.is_active
    \/ current_time > timer.end_time
    \/ task.pc = "done"

\* cleanup_completed_timers: the keys with should_cleanup are deleted
CleanupCompletedTimers ==
    /\ active_timers' =
          [t \in Timers |->
              IF active_timers[t].registered
                 /\ ShouldCleanup(active_timers[t], timer_task[t], now)
              THEN NoTimer
              ELSE active_timers[t]]
    /\ UNCHANGED <<now, timer_task, start_pc, start_args, cancel_pc, cancel_target,
                   send_calls, posted, report, tmrOther>>

\* a unit of time passes; a countdown whose sleep is over runs before that
Tick ==
    /\ now < MaxTime
    /\ \A t \in Timers : ~Due(t)
    /\ now' = now + 1
    /\ UNCHANGED <<active_timers, timer_task, start_pc, start_args, cancel_pc,
                   cancel_target, send_calls, posted, report, tmrOther>>

\* a manager on a constructed client
InitTimer ==
    /\ Init
    /\ max_retries = 3
    /\ rate_limit_delay = 1
    /\ exponential_backoff_base = 2
    /\ ctor = CHOOSE c \in CallerInputs : Construct(c).ok

NextTimer ==
    \/ \E t \in Timers, ty \in SampleTypes, d \in SampleDurations : StartTimer(t, ty, d)
    \/ \E t \in Timers, o \in SendOutcomes : StartNotified(t, o)
    \/ \E t \in Timers : Expire(t)
    \/ \E t \in Timers : EndPosted(t)
    \/ \E t \in Timers, o \in SendOutcomes : EndReturns(t, o)
    \/ \E t \in Timers : CountdownCancelled(t)
    \/ \E c \in Cancels, t \in SampleIds : CancelTimer(c, t)
    \/ \E c \in Cancels : CancelJoined(c)
    \/ \E c \in Cancels, o \in SendOutcomes : CancelNotified(c, o)
    \/ \E t \in SampleIds : GetTimerStatus(t)
    \/ ListActiveTimers
    \/ CleanupCompletedTimers
    \/ Tick

SpecTimer == InitTimer /\ [][NextTimer]_vars

NextStart ==
    \/ \E t \in Timers, ty \in SampleTypes, d \in SampleDurations : StartTimer(t, ty, d)
    \/ \E t \in Timers, o \in SendOutcomes : StartNotified(t, o)
    \/ \E t \in Timers : Expire(t)
    \/ \E t \in Timers : EndPosted(t)
    \/ \E t \in Timers, o \in SendOutcomes : EndReturns(t, o)
    \/ CleanupCompletedTimers
    \/ Tick

\* start_timer calls, the countdowns of the timers they start and the
\* clean-up, without cancel_timer and the queries
SpecStart == InitTimer /\ [][NextStart]_vars

(***************************************************************************)
(* Vocabulary of the properties.                                           *)
(***************************************************************************)
Positions == 1..Len(outcomes)

Throttled(o) == o.kind = "not_ok" /\ o.code = "ratelimited"
TransportFault(o) == o.kind \in {"conn_error", "timeout"}

\* the seconds a Retry-After header states, read off the header text
HeaderSeconds(h) ==
    CASE h.digits = <<0>> -> 0
      [] h.digits = <<7>> -> 7
      [] h.digits = <<1, 2>> -> 12

\* rate_limit_delay * exponential_backoff_base^k for the attempts in reach
ExpectedBackoff(k) ==
    CASE k = 0 -> rate_limit_delay
      [] k = 1 -> rate_limit_delay * exponential_backoff_base
      [] k = 2 -> rate_limit_delay * exponential_backoff_base * exponential_backoff_base
      [] OTHER -> rate_limit_delay * exponential_backoff_base * exponential_backoff_base
                  * exponential_backoff_base

\* the call ended at its k-th transmission, with no wait and no transmission
\* after it
EndedAt(k) ==
    /\ k = Len(outcomes)
    /\ pc = "done"
    /\ Len(waits) = k - 1
    /\ transmissions = k

\* the k-th transmission was followed by a wait of d seconds
WaitedAfter(k, d) == Len(waits) >= k /\ waits[k] = d

\* C1: a call never makes more than max_retries transmissions, whatever the
\* outcomes; throttling retries and transport-fault retries are counted by
\* one counter, so the retries of both kinds together number below max_retries.
C1_AttemptsBounded ==
    /\ transmissions <= max_retries
    /\ Len(outcomes) <= transmissions
    /\ (max_retries >= 1 => Len(waits) <= max_retries - 1)

C1_Witness ==
    /\ pc = "done"
    /\ max_retries = 3
    /\ transmissions = 3
    /\ \E i, j \in Positions : Throttled(outcomes[i]) /\ outcomes[j].kind = "conn_error"

\* C2 (the claim as stated): with max_retries >= 1, a finished call all of
\* whose attempts ended in a throttling response or a transport fault made
\* exactly max_retries transmissions and failed with max_retries_exceeded.
C2_ExhaustionKind ==
    (/\ pc = "done"
     /\ max_retries >= 1
     /\ outcomes # <<>>
     /\ \A k \in Positions : Throttled(outcomes[k]) \/ TransportFault(outcomes[k]))
    => /\ transmissions = max_retries
       /\ raw.how = "raise"
       /\ raw.exc = "SlackAPIError"
       /\ raw.code = "max_retries_exceeded"

\* C3: a throttling response on an attempt that is not the last is followed by
\* a wait of exactly the seconds of its Retry-After header, and of
\* rate_limit_delay when the response has no such header.
C3_RateLimitWait ==
    \A k \in Positions :
        (Throttled(outcomes[k]) /\ k - 1 < max_retries - 1)
        => WaitedAfter(k, IF outcomes[k].header.present
                          THEN HeaderSeconds(outcomes[k].header)
                          ELSE rate_limit_delay)

C3_Witness ==
    /\ Len(outcomes) >= 2
    /\ Throttled(outcomes[2])
    /\ outcomes[2].header.present
    /\ HeaderSeconds(outcomes[2].header) = 7
    /\ WaitedAfter(2, 7)
    /\ ExpectedBackoff(1) # 7
    /\ transmissions = 3

\* C4 (the claim as stated): a transport fault on attempt k (0-based) is
\* followed by a wait of rate_limit_delay * exponential_backoff_base^k when
\* k < max_retries - 1, and ends the call with network_error and no wait when
\* k = max_retries - 1.
C4_TransportFaultBackoff ==
    \A k \in Positions :
        TransportFault(outcomes[k])
        => IF k - 1 < max_retries - 1
           THEN WaitedAfter(k, ExpectedBackoff(k - 1))
           ELSE EndedAt(k) /\ raw.exc = "SlackAPIError" /\ raw.code = "network_error"

\* the part of C4 the code keeps: the same, for connection errors only
ConnErrorBackoff ==
    \A k \in Positions :
        outcomes[k].kind = "conn_error"
        => IF k - 1 < max_retries - 1
           THEN WaitedAfter(k, ExpectedBackoff(k - 1))
           ELSE EndedAt(k) /\ raw.exc = "SlackAPIError" /\ raw.code = "network_error"

\* C5: a not-ok response with any code but ratelimited (known, unknown or
\* missing) ends the call there with that code: no wait and no transmission
\* follow it.  So only ratelimited is ever followed by another attempt.
C5_OnlyRateLimitedRetried ==
    \A k \in Positions :
        (outcomes[k].kind = "not_ok" /\ outcomes[k].code # "ratelimited")
        => /\ EndedAt(k)
           /\ raw.how = "raise"
           /\ raw.exc = "SlackAPIError"
           /\ raw.code = (IF outcomes[k].code = NoCode THEN "unknown_error"
                          ELSE outcomes[k].code)

C5_Witness ==
    /\ pc = "done"
    /\ Len(outcomes) = 2
    /\ Throttled(outcomes[1])
    /\ outcomes[2].kind = "not_ok"
    /\ outcomes[2].code = NoCode
    /\ max_retries = 3

\* C6: send_message answered with not_in_channel returns an envelope with
\* success false, an error field and the invite-the-bot suggestion, and no
\* transmission follows the answer: one transmission in all when it answers
\* the first attempt.
C6_NotInChannel ==
    \A k \in Positions :
        (op = "send_message" /\ outcomes[k].kind = "not_ok"
            /\ outcomes[k].code = "not_in_channel")
        => /\ EndedAt(k)
           /\ reply.how = "return"
           /\ reply.success = FALSE
           /\ reply.error = <<"message send failed", "not_in_channel">>
           /\ reply.suggestion = <<"invite the bot to the channel">>
           /\ (k = 1 => transmissions = 1 /\ waits = <<>>)

C6_Witness ==
    /\ op = "send_message"
    /\ pc = "done"
    /\ Len(outcomes) = 1
    /\ outcomes[1].code = "not_in_channel"
    /\ max_retries = 3
    /\ transmissions = 1

\* C7: a body that is not JSON ends the call at once with json_parse_error,
\* on whatever attempt: no wait and no transmission follow, also when
\* attempts remain.
C7_BadJsonTerminal ==
    \A k \in Positions :
        outcomes[k].kind = "bad_json"
        => /\ EndedAt(k)
           /\ raw.how = "raise"
           /\ raw.exc = "SlackAPIError"
           /\ raw.code = "json_parse_error"

C7_Witness ==
    /\ pc = "done"
    /\ Len(outcomes) = 2
    /\ outcomes[1].kind = "conn_error"
    /\ outcomes[2].kind = "bad_json"
    /\ max_retries = 3

\* C8 (the claim as stated): a timeout of one attempt is handled like a
\* connection error: followed by the back-off wait while attempts remain,
\* and ending the call with network_error on the last attempt.
C8_TimeoutRetried ==
    \A k \in Positions :
        outcomes[k].kind = "timeout"
        => IF k - 1 < max_retries - 1
           THEN WaitedAfter(k, ExpectedBackoff(k - 1)) /\ raw.how # "raise"
           ELSE EndedAt(k) /\ raw.exc = "SlackAPIError" /\ raw.code = "network_error"

\* C9: an ok response ends the call there with that response's payload as the
\* result: no wait and no transmission follow it, on the first attempt or
\* after retried failures.
C9_SuccessReturns ==
    \A k \in Positions :
        outcomes[k].kind = "ok"
        => /\ EndedAt(k)
           /\ raw.how = "return"
           /\ raw.payload = outcomes[k].payload

C9_Witness ==
    /\ pc = "done"
    /\ Len(outcomes) = 3
    /\ Throttled(outcomes[1])
    /\ outcomes[2].kind = "conn_error"
    /\ outcomes[3].kind = "ok"
    /\ raw.payload = "p2"

\* C10: a throttling response on the last allowed attempt ends the call with
\* no wait, with error ratelimited and the rate-limit suggestion followed by
\* the note that max_retries was exceeded; on an earlier attempt it never
\* ends the call.
C10_RateLimitExhausted ==
    \A k \in Positions :
        Throttled(outcomes[k])
        => IF k = max_retries
           THEN /\ EndedAt(k)
                /\ raw.how = "raise"
                /\ raw.exc = "SlackAPIError"
                /\ raw.code = "ratelimited"
                /\ raw.suggestion = <<"request limit exceeded, try again later",
                                      "max retries exceeded", ToString(max_retries)>>
           ELSE Len(waits) >= k /\ ~(pc = "done" /\ Len(outcomes) = k)

C10_Witness ==
    /\ pc = "done"
    /\ max_retries = 3
    /\ Len(outcomes) = 3
    /\ Throttled(outcomes[1])
    /\ Throttled(outcomes[3])
    /\ raw.code = "ratelimited"

\* the operations that ask for the user token
ElevatedOps == {"make_request_user", "search_messages"}

\* the failure an operation that needs the user token ends with when the
\* client holds none: the ValueError of _get_headers, or the envelope of
\* search_messages
MissingUserTokenFailure ==
    IF op = "search_messages"
    THEN reply = SearchNeedsToken
    ELSE reply.how = "raise" /\ reply.exc = "ValueError"

\* C11: an operation that needs the user token, called on a client that
\* holds none, ends with the missing-user-token failure and sends no request;
\* every request such an operation does send carries the user token, never
\* the bot token.
C11_ElevatedNeedsUserToken ==
    op \in ElevatedOps =>
        /\ ~Truthy(user_token) =>
               /\ transmissions = 0
               /\ pc = "done"
               /\ MissingUserTokenFailure
        /\ transmissions > 0 =>
               /\ Truthy(user_token)
               /\ auth = user_token
               /\ auth # bot_token

C11_Witness ==
    /\ op = "search_messages"
    /\ pc = "done"
    /\ ~Truthy(user_token)
    /\ transmissions = 0
    /\ reply.success = FALSE

\* the tokens __init__ reads: the argument, or the environment when the
\* argument is None or empty
BotGiven == IF ctor.bot_arg \in {None, Str(<<>>)} THEN ctor.bot_env ELSE ctor.bot_arg
UserGiven == IF ctor.user_arg \in {None, Str(<<>>)} THEN ctor.user_env ELSE ctor.user_arg

WellFormedBot == Str(<<"x", "o", "x", "b", "-", "1">>)
WellFormedUser == Str(<<"x", "o", "x", "p", "-", "1">>)

\* C12: the constructor fails exactly when the bot token is absent or lacks
\* the bot prefix; with a good bot token it succeeds whatever the user token
\* is, holding the user token when it is well formed and none otherwise; the
\* tokens stay what the constructor made them through every later call.
C12_ConstructorTokens ==
    pc # "new" =>
        /\ pc = "ctor_failed" <=> BotGiven # WellFormedBot
        /\ pc # "ctor_failed" =>
               /\ bot_token = BotGiven
               /\ IF UserGiven = WellFormedUser
                  THEN user_token = WellFormedUser
                  ELSE ~Truthy(user_token)

C12_Witness ==
    /\ pc = "done"
    /\ op = "make_request_user"
    /\ ctor.bot_arg = WellFormedBot
    /\ ctor.user_arg = WellFormedBot
    /\ user_token = None
    /\ bot_token = WellFormedBot

RECURSIVE ItemsOf(_)
\* the items of the pages ids, page after page
ItemsOf(ids) ==
    IF ids = <<>>
    THEN <<>>
    ELSE ChannelPageOf(Head(ids)).channels \o ItemsOf(Tail(ids))

\* the body id carries no continuation cursor
CursorLess(id) ==
    LET page == ChannelPageOf(id)
    IN  \/ page.response_metadata # "object"
        \/ page.next_cursor \in {None, Str(<<>>)}

Listed == op = "get_channels" /\ pc = "done" /\ reply.how = "return"

\* C13: when get_channels returns, its list has one entry per item of the
\* pages received, in page order and item order, and it made exactly one
\* dispatcher call per page.
C13_WalkConcatenates ==
    Listed =>
        /\ Len(listing) = Len(ItemsOf(pages))
        /\ \A i \in 1..Len(listing) : listing[i].id = ItemsOf(pages)[i].id
        /\ calls = Len(pages)

C13_Witness ==
    /\ Listed
    /\ pages = <<"more_1", "more_2", "last_no_metadata">>
    /\ Len(listing) = 4
    /\ calls = 3

\* C14: when the dispatcher call for a page of get_channels fails, on the
\* first page or a later one, the walk is over with that call, the failure
\* is propagated and no item reaches the caller, of the client or of the tool.
C14_WalkFailurePropagates ==
    (op = "get_channels" /\ raw.how = "raise") =>
        /\ pc = "done"
        /\ calls = Len(pages) + 1
        /\ reply.how = "raise"
        /\ reply.exc = raw.exc
        /\ listing = <<>>
        /\ ~GetSlackChannels(reply, listing).success
        /\ ~GetSlackChannels(reply, listing).has_channels

C14_Witness ==
    /\ op = "get_channels"
    /\ raw.how = "raise"
    /\ pc = "done"
    /\ Len(pages) = 2
    /\ Len(all_channels) = 3
    /\ listing = <<>>

\* C15: the page requests of one walk are sequential: the first carries no
\* cursor, request i+1 exists only when response i has been received and
\* carries the cursor of response i, and at most one request is unanswered.
C15_Sequential ==
    op = "get_channels" =>
        /\ Len(requests) = calls
        /\ calls >= 1
        /\ requests[1] = None
        /\ Len(pages) <= calls
        /\ calls <= Len(pages) + 1
        /\ \A i \in 1..(calls - 1) :
               /\ Truthy(requests[i + 1])
               /\ requests[i + 1] = ChannelPageOf(pages[i]).next_cursor

C15_Witness ==
    /\ op = "get_channels"
    /\ pc = "inflight"
    /\ calls = 3
    /\ Len(pages) = 2
    /\ requests = <<None, Cur1, Cur2>>

\* C16: a walk stops at the first response without a continuation cursor
\* (no metadata, no cursor, an empty cursor) and makes no request after it;
\* the remote returning such a page at some point and every dispatcher call
\* returning, every walk ends.
C16_WalkStops ==
    /\ [](op = "get_channels" =>
              \A i \in 1..Len(pages) :
                  CursorLess(pages[i]) =>
                      /\ i = Len(pages)
                      /\ calls = Len(pages)
                      /\ pc = "done")
    /\ (op = "get_channels") ~> (op = "get_channels" /\ pc = "done")

C16_Witness ==
    /\ op = "get_channels"
    /\ pc = "done"
    /\ calls = 2
    /\ pages = <<"more_2", "last_empty_cursor">>
    /\ reply.how = "return"

\* C17: when the body users.list answered with carries a continuation
\* cursor, get_users does not return before it has fetched the next page.
C17_UsersFollowCursor ==
    (/\ op = "get_users"
     /\ pc = "done"
     /\ reply.how = "return"
     /\ Truthy(UserPageOf(pages[1]).next_cursor)) => calls >= 2

\* smart_upload has verified (or created) its file
Verified == op = "smart_upload" /\ (file.on_disk = "file" \/ created)

\* no strategy has been invoked and nothing has been sent
NothingSent ==
    /\ strategy = "none"
    /\ steps = <<>>
    /\ transmissions = 0
    /\ sent_bytes = 0

ReportTxt == <<<<"h", "o", "m", "e">>, <<"u">>, <<"r", "e", "p", "o", "r", "t", ".", "t", "x", "t">>>>
DataCsv == <<<<"h", "o", "m", "e">>, <<"u">>, <<"d", "a", "t", "a", ".", "c", "s", "v">>>>
ArchiveZip == <<<<"h", "o", "m", "e">>, <<"u">>, <<"a", "r", "c", "h", "i", "v", "e", ".", "z", "i", "p">>>>

\* the file counts as inline text: a text extension and less than 50 KB
InlineText ==
    /\ Lower(SuffixOf(file.path)) \in text_extensions
    /\ file_size < 51200

\* C18: for a verified file that is not sensitive, the strategy smart_upload
\* selects is a function of extension and size: the message strategy iff
\* the extension is a text extension and the size is under 50 KB, else the
\* snippet strategy iff the size is under 1 MB, else the standard upload
\* iff the size is under 1 GB; a 10 KB .txt goes as a message, a 900 KB .csv
\* as a snippet, a 50 MB .zip as a standard upload whose authenticated
\* requests all carry the bot token.
C18_StrategyBands ==
    (Verified /\ ~IsSensitiveFile(file.path)) =>
        /\ strategy \in {"text_message", "code_snippet", "file_upload", "file_info_only"}
        /\ strategy = "text_message" <=> InlineText
        /\ strategy = "code_snippet" <=> ~InlineText /\ file_size < 1048576
        /\ strategy = "file_upload" <=>
               ~InlineText /\ file_size >= 1048576 /\ file_size < 1073741824
        /\ (file.path = ReportTxt /\ file_size = 10240) => strategy = "text_message"
        /\ (file.path = DataCsv /\ file_size = 921600) => strategy = "code_snippet"
        /\ (file.path = ArchiveZip /\ file_size = 52428800) =>
               /\ strategy = "file_upload"
               /\ \A i \in 1..Len(steps) :
                      /\ steps[i] # "chat.postMessage"
                      /\ steps[i] # "PUT" => step_auth[i] = bot_token

C18_Witness ==
    /\ Verified
    /\ file.path = ArchiveZip
    /\ file_size = 52428800
    /\ strategy = "file_upload"
    /\ pc = "done"
    /\ result.success
    /\ steps = <<"files.getUploadURLExternal", "PUT", "files.completeUploadExternal">>

IdRsaUnderSsh ==
    /\ NameOf(file.path) = <<"i", "d", "_", "r", "s", "a">>
    /\ \E i \in 1..(Len(file.path) - 1) : file.path[i] = <<".", "s", "s", "h">>

SnippetRequests == IF file.readable /\ file.arg = "Path" THEN 1 ELSE 0

\* C21 as stated: whenever the snippet attempt fails, for any cause, a request
\* of the standard path follows it; a snippet failure alone never ends the
\* call.
C21_SnippetFallsBack ==
    (pc = "done" /\ strategy = "code_snippet" /\ sdk /\ ~upload_result.success) =>
        Len(steps) > SnippetRequests

\* C22: when the inline-text strategy is selected, the only request ever made
\* is the chat message; when it fails (unreadable file, failed send)
\* smart_upload returns the strategy's failure, attributed to text_message.
C22_InlineFailureFinal ==
    strategy = "text_message" =>
        /\ \A i \in 1..Len(steps) : steps[i] = "chat.postMessage"
        /\ Len(steps) <= 1
        /\ (pc = "done" /\ ~result.success) =>
               /\ result.how = "return"
               /\ result.method = "text_message"
               /\ result = upload_result
               /\ (~file.readable => steps = <<>>)

C22_Witness ==
    /\ strategy = "text_message"
    /\ pc = "done"
    /\ steps = <<"chat.postMessage">>
    /\ transmissions >= 1
    /\ raw.how = "raise"
    /\ result = Failed("text_message", "message send failed")

\* the requests of the three-step upload, in the order of the code
ThreeSteps == <<"files.getUploadURLExternal", "PUT", "files.completeUploadExternal">>

\* the three-step upload has begun
ThreeStepUpload == Len(steps) >= 1 /\ steps[1] = ThreeSteps[1]

\* C23: in the three-step upload the byte transfer begins only after the
\* upload-location request returned, the finalize request only after the
\* transfer ended with status 200; after a step that failed no further step
\* begins and the upload does not end in success.
C23_ThreeStepOrder ==
    ThreeStepUpload =>
        /\ Len(steps) <= 3
        /\ \A i \in 1..Len(steps) : steps[i] = ThreeSteps[i]
        /\ Len(step_results) \in {Len(steps) - 1, Len(steps)}
        /\ Len(steps) >= 2 => step_results[1] = "ok"
        /\ Len(steps) = 3 => step_results[2] = "200"
        /\ (\E i \in 1..Len(step_results) : step_results[i] \notin {"ok", "200"}) =>
               /\ Len(step_results) = Len(steps)
               /\ pc = "done"
               /\ ~result.success
               /\ ~upload_result.success
        /\ (pc = "done" /\ result.success) => step_results = <<"ok", "200", "ok">>
        /\ (pc = "done" /\ Len(steps) < 3) => ~result.success

C23_Witness ==
    /\ ThreeStepUpload
    /\ pc = "done"
    /\ steps = <<"files.getUploadURLExternal", "PUT">>
    /\ step_results = <<"ok", "500">>
    /\ ~result.success

\* the credential the size of the file selects
SizeCredential == IF file_size > standard THEN user_token ELSE bot_token

C25_InfoOnlyOneMessage ==
    (strategy = "file_info_only" /\ pc = "done") =>
        /\ steps = <<"chat.postMessage">>
        /\ sent_bytes = 0
        /\ raw.how = "return" => result = Succeeded("file_info_only")

\* C27 as stated: no tool call ever raises to its caller; every call that is
\* over has returned an envelope, also when the initialisation it triggered
\* failed.
C27_ToolsNeverRaise ==
    \A t \in Tasks : task_pc[t] # "raised"

\* C29: whatever the interleaving of the tool calls, the server constructs at
\* most one client and that client creates at most one session; every tool
\* call operates on the one client that is installed.
C29_SingleInitialisation ==
    /\ clients_created <= 1
    /\ sessions_created <= 1
    /\ slack_client = clients_created
    /\ \A t \in Tasks : task_client[t] \in {0, slack_client}
    /\ \A t \in Tasks : task_pc[t] = "call" => task_client[t] = 1

C29_Witness ==
    \E t, u, w \in Tasks :
        /\ task_pc[t] = "user_test"
        /\ task_pc[u] = "call"
        /\ task_client[u] = slack_client
        /\ task_pc[w] = "waiting"
        /\ clients_created = 1
        /\ sessions_created = 1

\* C26 as stated: every failure of a file delivery, by any strategy, reaches
\* the caller of the tool as an envelope with success false and a non-empty
\* suggestion.
C26_FailureHasSuggestion ==
    (op = "smart_upload" /\ pc = "done") =>
        LET envelope == UploadFileToSlack(result)
        IN  ~envelope.success => envelope.how = "return" /\ envelope.suggestion

\* C28 as stated: when the strategy smart_upload chose returns a failure,
\* smart_upload returns that failure, with the same error and suggestion.
C28_StrategyFailureUnchanged ==
    (pc = "done" /\ strategy # "none" /\ upload_result.how = "return"
        /\ ~upload_result.success) =>
        /\ result.how = "return"
        /\ ~result.success
        /\ result.error = upload_result.error
        /\ result.suggestion = upload_result.suggestion

\* C30: once a call is cancelled, in a transmission or in a wait, the call is
\* over: the cancellation is the last thing that happened to it, it reaches
\* the caller as asyncio.CancelledError, and no transmission follows it,
\* however many attempts remain.
C30_CancelStopsRetries ==
    \A i \in 1..Len(outcomes) :
        outcomes[i].kind = "cancelled" =>
            /\ i = Len(outcomes)
            /\ pc = "done"
            /\ raw = RaisesOther("asyncio.CancelledError")
            /\ reply.how = "raise"
            /\ reply.exc = "asyncio.CancelledError"
            /\ transmissions \in {i - 1, i}
            /\ Len(waits) = i - 1

C30_Witness ==
    /\ Len(outcomes) = 2
    /\ outcomes[1].kind = "conn_error"
    /\ outcomes[2].kind = "cancelled"
    /\ Len(waits) = 1
    /\ transmissions = 1
    /\ max_retries = 3
    /\ pc = "done"

C32_SuggestionTotal ==
    (/\ pc = "done"
     /\ raw.how = "raise"
     /\ raw.exc = "SlackAPIError"
     /\ Len(outcomes) > 0
     /\ outcomes[Len(outcomes)].kind = "not_ok"
     /\ raw.code = ErrorCodeOf(outcomes[Len(outcomes)])) =>
        /\ raw.suggestion # <<>>
        /\ raw.code \notin KnownCodes =>
               raw.suggestion = <<"no specific suggestion for", raw.code>>
        /\ raw.code \in KnownCodes => raw.suggestion[1] # "no specific suggestion for"

C32_Witness ==
    /\ pc = "done"
    /\ Len(outcomes) = 1
    /\ outcomes[1].kind = "not_ok"
    /\ outcomes[1].code = "internal_error"
    /\ raw.code = "internal_error"
    /\ raw.suggestion = <<"no specific suggestion for", "internal_error">>

\* C34 as stated: whenever no initialisation is in progress the client and the
\* timer manager are both absent or both installed.
C34_BothOrNeither ==
    initialize_lock = 0 => ((slack_client = 0) <=> ~pomodoro_manager)

\* C40 as stated: a call that ends in the sensitive-file rejection has sent
\* nothing and has created no file.
C40_RejectionWithoutEffect ==
    (op = "smart_upload" /\ pc = "done" /\ result = SensitiveRejected) =>
        /\ NothingSent
        /\ ~created

\* C33 as stated: every attempt of the retry loop finds an open session, and
\* while a close() is suspended no call has installed a new session that the
\* close() will discard when it resumes.
C33_AttemptsOnOpenSession ==
    /\ (pc = "loop" /\ LoopContinues(attempt, max_retries)) => session = "open"
    /\ close_pc = "closing" => session # "open"

\* cancel_timer calls on timer t that reported success
SuccessfulCancels(t) ==
    {c \in Cancels : /\ cancel_target[c] = t
                     /\ cancel_pc[c] \in {"succeeded", "succeeded_unnotified"}}

\* cancel_timer calls on timer t that got past the two checks
AdmittedCancels(t) ==
    {c \in Cancels : /\ cancel_target[c] = t
                     /\ cancel_pc[c] \in {"notifying", "succeeded",
                                          "succeeded_unnotified", "error"}}

\* the start_timer call of timer t has failed
StartFailed(pos) == pos \in {"bad_type", "bad_duration", "not_delivered", "error"}

\* C35 as stated: of the completion message and the cancellation notice of a
\* timer at most one ever reaches the channel, and a timer for which
\* cancel_timer reported success has no completion message in the channel.
C35_OneTerminalNotification ==
    \A t \in Timers :
        /\ posted[t].end + posted[t].cancel <= 1
        /\ SuccessfulCancels(t) # {} => posted[t].end = 0

\* C36 as stated, in the form a finite run decides: once the countdown of a
\* timer that was started and that no cancel_timer call ever named is over,
\* the countdown has handed the completion notification to send_message
\* exactly once and the timer is not active.
C36_CompletionSentOnce ==
    \A t \in Timers :
        (/\ start_pc[t] = "started"
         /\ timer_task[t].pc = "done"
         /\ \A c \in Cancels : cancel_target[c] # t) =>
            /\ send_calls[t].end = 1
            /\ ~active_timers[t].is_active

\* C37 as stated: a get_timer_status call on a registered timer answers
\* 'running' exactly when the timer is active and before its end time,
\* 'completed' when the countdown ran to its end and delivered the completion
\* notification, and 'cancelled' only when cancel_timer cancelled the timer.
C37_StatusMatchesState ==
    [][\A t \in SampleIds :
          (GetTimerStatus(t) /\ active_timers[t].registered) =>
              /\ (report'.status = "running") <=>
                     (active_timers[t].is_active /\ now < active_timers[t].end_time)
              /\ timer_task[t].ended = "completed" => report'.status = "completed"
              /\ report'.status = "cancelled" => CancelledThroughCancelTimer(t)]_vars

\* C38: a step in which a start_timer call fails changes neither active_timers
\* nor any countdown task; when it fails in a validation it has called
\* send_message for nothing; and a timer becomes a key of active_timers only
\* in the step that follows the delivery of its start notification.
C38_FailedStartChangesNothing ==
    [][\A t \in Timers :
          /\ (~StartFailed(start_pc[t]) /\ StartFailed(start_pc'[t])) =>
                /\ active_timers' = active_timers
                /\ timer_task' = timer_task
                /\ start_pc'[t] \in {"bad_type", "bad_duration"} =>
                      /\ send_calls' = send_calls
                      /\ posted' = posted
                      /\ send_calls[t] = NoMessages
          /\ (~active_timers[t].registered /\ active_timers'[t].registered) =>
                /\ start_pc[t] = "notifying"
                /\ posted[t].start = 0
                /\ posted'[t].start = 1
                /\ timer_task[t] = NoTask
                /\ timer_task'[t].pc = "sleeping"]_vars

\* the start notification of the second timer was not delivered while the
\* first timer is registered and counting down
C38_Witness ==
    /\ start_pc[1] = "started"
    /\ active_timers[1].registered
    /\ timer_task[1].pc = "sleeping"
    /\ start_pc[2] = "not_delivered"
    /\ send_calls[2].start = 1
    /\ ~active_timers[2].registered
    /\ timer_task[2] = NoTask

\* C39 as stated: only cancel_timer calls that got past the two checks have
\* sent a notice; of the calls on one timer at most one reports success; a call
\* that got past the checks reports success also when its notice could not be
\* delivered, and the timer of a successful call is not active.
C39_CancelOutcomes ==
    \A t \in Timers :
        /\ send_calls[t].cancel = Cardinality(AdmittedCancels(t))
        /\ Cardinality(SuccessfulCancels(t)) <= 1
        /\ \A c \in AdmittedCancels(t) : cancel_pc[c] # "error"
        /\ SuccessfulCancels(t) # {} => ~active_timers[t].is_active

====
